---- MODULE Spec2Model ----
(***************************************************************************)
(* The OKLCH palette plugin: the palette state (PluginState), the curve    *)
(* engine and recalculatePalette of src/src/color-converter.ts, and the    *)
(* event handlers of the plugin UI (src/unnamed/part_000).                 *)
(*                                                                         *)
(* Numbers.  Every JavaScript number is a fixed-point integer with SCALE   *)
(* units per 1: l = 0.5 is 500, c = 0.1 is 100, h = 262.293 degrees is     *)
(* 262293, a curve parameter 0.94 is 940.  Divisions round to the nearest  *)
(* unit.                                                                   *)
(*                                                                         *)
(* Objects.  paletteData and originalPaletteData are references to arrays  *)
(* of shade objects.  The handlers write shades in place                   *)
(* (paletteData[i].l = ...), so the arrays live in a heap and the state    *)
(* holds their addresses: two fields holding one address are aliases.      *)
(***************************************************************************)
EXTENDS Integers, Sequences, FiniteSets, TLC

\* ------------------------------------------------------------------------
\* Bounds of the model
\* ------------------------------------------------------------------------

\* Events that bring something new into the state (a curve activation, a
\* parameter edit, a manual edit, a rebuild) explored in one run.  Tab
\* clicks, toggling a curve off, resets, a base-color message without a
\* colour and the inputs the handlers ignore are not counted; nor is a
\* run's opening click on Linear (see Opening).
MaxEvents == 2

\* ------------------------------------------------------------------------
\* Fixed-point arithmetic
\* ------------------------------------------------------------------------

SCALE == 1000

NULL == "null"

\* The number NaN, which 0 / 0 gives: a value apart from every number the
\* model computes.  Where NaN can arise (one shade: i / (steps - 1) is
\* 0 / 0) the definitions say how it spreads.
NaN == 0 - 1000000000

Min(a, b) == IF a < b THEN a ELSE b
\* Variant: no lower clamp.
Max_Right(a, b) == b

Max(a, b) == IF a > b THEN a ELSE b
Abs(a) == IF a < 0 THEN 0 - a ELSE a

\* a / b rounded to the nearest integer, b > 0.
RDiv(a, b) == (2 * a + b) \div (2 * b)

\* Product of two fixed-point numbers.
FMul(a, b) == RDiv(a * b, SCALE)

\* JavaScript's %: the result takes the sign of the dividend.
JsMod(a, b) == IF a >= 0 THEN a % b ELSE 0 - ((0 - a) % b)

\* Math.exp on [0, 1): the Taylor polynomial of degree 6 in Horner form.
ExpSeries(z) ==
    LET t6 == SCALE + RDiv(z, 6)
        t5 == SCALE + RDiv(FMul(z, t6), 5)
        t4 == SCALE + RDiv(FMul(z, t5), 4)
        t3 == SCALE + RDiv(FMul(z, t4), 3)
        t2 == SCALE + RDiv(FMul(z, t3), 2)
    IN  SCALE + FMul(z, t2)

\* Math.exp for z >= 0: e^z = e^(z-1) * e, saturating at e^7.
RECURSIVE ExpPos(_)
ExpPos(z) ==
    IF z >= 7 * SCALE THEN 1096633
    ELSE IF z >= SCALE THEN RDiv(ExpPos(z - SCALE) * 2718, SCALE)
    ELSE ExpSeries(z)

\* Math.exp.
Exp(z) ==
    IF z >= 0 THEN ExpPos(z)
    ELSE IF z <= 0 - 8 * SCALE THEN 0
    ELSE RDiv(SCALE * SCALE, ExpPos(0 - z))

\* Math.sin on [-pi/2, pi/2]: the Taylor polynomial of degree 7.
SinSeries(z) ==
    LET z2 == FMul(z, z)
        t3 == SCALE - RDiv(z2, 42)
        t2 == SCALE - RDiv(FMul(z2, t3), 20)
        t1 == SCALE - RDiv(FMul(z2, t2), 6)
    IN  FMul(z, t1)

\* Math.sin: reduce to (-pi, pi], then fold onto [-pi/2, pi/2].
Sin(z) ==
    LET r  == z % 6283
        w  == IF r > 3142 THEN r - 6283 ELSE r
        f  == IF w > 1571 THEN 3142 - w
              ELSE IF w < 0 - 1571 THEN 0 - 3142 - w
              ELSE w
    IN  SinSeries(f)

\* Math.atan: z / (1 + 0.28 z^2) on [-1, 1] and pi/2 - z / (z^2 + 0.28)
\* outside (error below 0.005).
Atan(z) ==
    LET z2 == FMul(z, z)
    IN  IF Abs(z) <= SCALE THEN RDiv(z * SCALE, SCALE + FMul(281, z2))
        ELSE IF z > 0 THEN 1571 - RDiv(z * SCALE, z2 + 281)
        ELSE 0 - 1571 - RDiv(z * SCALE, z2 + 281)

\* ------------------------------------------------------------------------
\* Types and program constants (color-converter.ts)
\* ------------------------------------------------------------------------

Properties == {"Luminance", "Chroma", "Hue"}

\* The tab order of the UI: tabNames[index].
tabNames == <<"Luminance", "Chroma", "Hue">>

\* The curve buttons' texts.
curveTypes == {"Linear", "Normal", "Quad", "Arctan", "Sine", "Expo"}

\* The smallest shade count the shade slider offers.
MinShades == 2

\* The shade counts explored (the slider offers MinShades to 20).
ShadeCounts == {MinShades, MinShades + 1}

\* The shade count the session starts with (10 in the code), within the
\* counts of the model.
InitialShades == MinShades + 1

\* An object with no own properties ({}).
EmptyParams == [n \in {} |-> 0]

\* Variant: an absent parameter counts as 0.
OrDefault_AbsentIsZero(params, name, dflt) ==
    IF name \in DOMAIN params THEN params[name] ELSE 0

\* params.name || dflt: an absent parameter, and one that is 0, give dflt.
OrDefault(params, name, dflt) ==
    IF name \in DOMAIN params /\ params[name] # 0 THEN params[name] ELSE dflt

\* culori's formatHex is a library outside the repository.  It is total,
\* clips what lies outside the gamut and rounds to 8 bits a channel: the hex
\* code is three bytes, a function of (l, c, h) that is not injective.
oklchToHex(l, c, h) ==
    IF l = NaN \/ c = NaN \/ h = NaN
    THEN << NaN, NaN, NaN >>
    ELSE
    << RDiv(Max(0, Min(SCALE, l)) * 255, SCALE),
       RDiv(Max(0, Min(400, c)) * 255, 400),
       RDiv((h % (360 * SCALE)) * 255, 360 * SCALE) >>

\* The colours the colour picker and the host selection offer, with
\* culori's OKLCH coordinates of each.
PickerColors == {"#3366cc"}

hexToOklch(hex) ==
    CASE hex = "#3366cc" -> [l |-> 532, c |-> 168, h |-> 262293]
      [] hex = "#cc3333" -> [l |-> 559, c |-> 190, h |-> 25863]
      [] OTHER           -> [l |-> 0, c |-> 0, h |-> 0]

getPropertyRange(property) ==
    CASE property = "Luminance" -> [from |-> 0, to |-> SCALE]
      [] property = "Chroma"    -> [from |-> 0, to |-> 400]
      [] property = "Hue"       -> [from |-> 0, to |-> 360 * SCALE]
      [] OTHER                  -> [from |-> 0, to |-> SCALE]

\* Variant: Linear's default slope is 1.
getDefaultParameters_UnitSlope(curveType) ==
    CASE curveType = "Linear" -> [m |-> SCALE, c |-> 0]
      [] curveType = "Normal" -> [a |-> 180, k |-> 600, d |-> 0, c |-> 180]
      [] curveType = "Quad"   -> [a |-> 70, k |-> 380, d |-> 1400, c |-> 70]
      [] curveType = "Arctan" -> [b |-> 160, k |-> 400, d |-> 1680, c |-> 180]
      [] curveType = "Sine"   -> [a |-> 180, k |-> 600, d |-> 0, c |-> 180]
      [] curveType = "Expo"   -> [a |-> 180, k |-> 350, d |-> 2500, c |-> 0]
      [] OTHER                -> EmptyParams

getDefaultParameters(curveType) ==
    CASE curveType = "Linear" -> [m |-> 940, c |-> 0]
      [] curveType = "Normal" -> [a |-> 180, k |-> 600, d |-> 0, c |-> 180]
      [] curveType = "Quad"   -> [a |-> 70, k |-> 380, d |-> 1400, c |-> 70]
      [] curveType = "Arctan" -> [b |-> 160, k |-> 400, d |-> 1680, c |-> 180]
      [] curveType = "Sine"   -> [a |-> 180, k |-> 600, d |-> 0, c |-> 180]
      [] curveType = "Expo"   -> [a |-> 180, k |-> 350, d |-> 2500, c |-> 0]
      [] OTHER                -> EmptyParams

getParameterLabels(curveType) ==
    CASE curveType = "Linear" -> <<"m", "c">>
      [] curveType = "Normal" -> <<"a", "k", "d", "c">>
      [] curveType = "Quad"   -> <<"a", "k", "d", "c">>
      [] curveType = "Arctan" -> <<"b", "k", "d", "c">>
      [] curveType = "Sine"   -> <<"a", "k", "d", "c">>
      [] curveType = "Expo"   -> <<"a", "k", "d", "c">>
      [] OTHER                -> <<>>

\* ------------------------------------------------------------------------
\* The curve engine
\* ------------------------------------------------------------------------

\* The y of one shade: x = i / (steps - 1), the curve's formula, the clamp
\* to [0, 1].
CurveValue(steps, curveType, params, i) ==
    LET kx_d(k, d) == RDiv(OrDefault(params, "k", k) * i, steps - 1)
                        - OrDefault(params, "d", d)
        y == CASE curveType = "Linear" ->
                    RDiv(OrDefault(params, "m", 940) * i, steps - 1)
                      + OrDefault(params, "c", 0)
               [] curveType = "Normal" ->
                    LET z == kx_d(600, 0)
                    IN  FMul(OrDefault(params, "a", 180), Exp(0 - FMul(z, z)))
                          + OrDefault(params, "c", 180)
               [] curveType = "Quad" ->
                    LET z == kx_d(380, 1400)
                    IN  FMul(OrDefault(params, "a", 70), FMul(z, z))
                          + OrDefault(params, "c", 70)
               [] curveType = "Arctan" ->
                    FMul(OrDefault(params, "b", 160), Atan(kx_d(400, 1680)))
                      + OrDefault(params, "c", 180)
               [] curveType = "Sine" ->
                    FMul(OrDefault(params, "a", 180), Sin(kx_d(600, 0)))
                      + OrDefault(params, "c", 180)
               [] curveType = "Expo" ->
                    FMul(OrDefault(params, "a", 180), Exp(kx_d(350, 2500)))
                      + OrDefault(params, "c", 0)
               [] OTHER -> RDiv(SCALE * i, steps - 1)
    IN  IF steps = 1 THEN NaN ELSE Max(0, Min(SCALE, y))

\* calculateEasedFactor(x, formulaConfig) at x = i / (steps - 1), before any
\* clamp; the products are rounded as in CurveValue.
calculateEasedFactor(steps, i, formulaConfig) ==
    LET params == formulaConfig.curveParams
        curveType == formulaConfig.activeCurve
        kx_d(k, d) == RDiv(OrDefault(params, "k", k) * i, steps - 1)
                        - OrDefault(params, "d", d)
    IN  CASE curveType = "Linear" ->
                RDiv(OrDefault(params, "m", SCALE) * i, steps - 1)
                  + OrDefault(params, "c", 0)
          [] curveType = "Normal" ->
                FMul(OrDefault(params, "a", 180), Sin(kx_d(600, 0)))
                  + OrDefault(params, "c", 180)
          [] curveType = "Quad" ->
                LET z == kx_d(380, 1400)
                IN  FMul(OrDefault(params, "a", 70), FMul(z, z))
                      + OrDefault(params, "c", 70)
          [] curveType = "Arctan" ->
                FMul(OrDefault(params, "b", 160), Atan(kx_d(400, 1680)))
                  + OrDefault(params, "c", 180)
          [] curveType = "Sine" ->
                FMul(OrDefault(params, "a", 180), Sin(kx_d(600, 0)))
                  + OrDefault(params, "c", 180)
          [] curveType = "Expo" ->
                LET z == kx_d(350, 2500)
                IN  FMul(OrDefault(params, "a", 180), Exp(0 - FMul(z, z)))
                      + OrDefault(params, "c", 0)
          [] OTHER -> RDiv(SCALE * i, steps - 1)

\* The array of steps values; element i + 1 is the code's values[i].
generateCurveValues(steps, curveType, params) ==
    IF curveType = NULL
    THEN [j \in 1..steps |->
             IF steps = 1 THEN NaN ELSE RDiv(SCALE * (j - 1), steps - 1)]
    ELSE [j \in 1..steps |-> CurveValue(steps, curveType, params, j - 1)]

\* ------------------------------------------------------------------------
\* The heap of shade arrays
\* ------------------------------------------------------------------------

Addrs == {"a0", "a1", "a2"}

\* An address holding no array.
Free == <<>>

EmptyHeap == [a \in Addrs |-> Free]

\* The address the next array literal or map() result gets.
Alloc(hp) == CHOOSE a \in Addrs : hp[a] = Free

\* A machine configuration: the state object pluginState refers to, and
\* the heap.  The code's functions take and return configurations.
Config(st, hp) == [st |-> st, hp |-> hp]

\* Garbage collection at the end of a handler: the arrays the state reaches
\* are kept, paletteData's first, and every other address is freed.
\* Addresses are not observable; only their equality is.
Collect(m) ==
    LET pd == m.st.paletteData
        od == m.st.originalPaletteData
        od2 == IF od = NULL THEN NULL ELSE IF od = pd THEN "a0" ELSE "a1"
    IN  Config([m.st EXCEPT !.paletteData = "a0", !.originalPaletteData = od2],
               [a \in Addrs |->
                   IF a = "a0" THEN m.hp[pd]
                   ELSE IF a = "a1" /\ od # NULL /\ od # pd THEN m.hp[od]
                   ELSE Free])

\* ------------------------------------------------------------------------
\* color-converter.ts: the functions on the state
\* ------------------------------------------------------------------------

\* The new array's contents; element i + 1 is the shade with id i.
initializePaletteData(baseColor, steps) ==
    [j \in 1..steps |->
        LET l == IF steps = 1 THEN NaN ELSE RDiv(SCALE * (j - 1), steps - 1)
        IN  [id |-> j - 1, l |-> l, c |-> baseColor.c, h |-> baseColor.h,
             hex |-> oklchToHex(l, baseColor.c, baseColor.h)]]

createPropertyFormulaConfig(property) ==
    [activeCurve |-> NULL, curveParams |-> EmptyParams,
     formulaRange |-> getPropertyRange(property)]

createInitialState(baseColor, steps) ==
    LET a == Alloc(EmptyHeap)
    IN  Config([activeProperty |-> "Luminance",
                paletteData |-> a,
                originalPaletteData |-> NULL,
                isNodeSelected |-> FALSE,
                baseColor |-> baseColor,
                amountOfShades |-> steps,
                formulas |-> [p \in Properties |-> createPropertyFormulaConfig(p)],
                assetName |-> "Palette"],
               [EmptyHeap EXCEPT ![a] = initializePaletteData(baseColor, steps)])

getActivePropertyFormula(st) == st.formulas[st.activeProperty]

\* updates is a record holding some of activeCurve, curveParams.
updateActivePropertyFormula(m, updates) ==
    LET old == m.st.formulas[m.st.activeProperty]
        new == [f \in DOMAIN old |->
                   IF f \in DOMAIN updates THEN updates[f] ELSE old[f]]
    IN  Config([m.st EXCEPT !.formulas[m.st.activeProperty] = new], m.hp)

hasAnyActiveFormula(st) ==
    \E p \in Properties : st.formulas[p].activeCurve # NULL

\* The value a formula gives shade i (0-based) of one property.
FormulaValue(property, formulaConfig, steps, i) ==
    LET easedValues == generateCurveValues(steps, formulaConfig.activeCurve,
                                           formulaConfig.curveParams)
        easedFactor == easedValues[i + 1]
        newValue == formulaConfig.formulaRange.from
                      + FMul(formulaConfig.formulaRange.to
                               - formulaConfig.formulaRange.from, easedFactor)
    IN  IF easedFactor = NaN THEN NaN
        ELSE
        CASE property = "Luminance" -> Max(0, Min(SCALE, newValue))
          [] property = "Chroma"    -> Max(0, Min(400, newValue))
          [] property = "Hue"       -> JsMod(newValue, 360 * SCALE)

\* Variant: a formula's value is added to the value the shade holds.
RecalculatedShade_Accumulates(st, color, i) ==
    LET f == st.formulas
        steps == st.amountOfShades
        Sum(held, v) == IF held = NaN \/ v = NaN THEN NaN ELSE held + v
        Upto(top, v) == IF v = NaN THEN NaN ELSE Min(top, v)
        l == IF f["Luminance"].activeCurve # NULL
             THEN Upto(SCALE, Sum(color.l,
                     FormulaValue("Luminance", f["Luminance"], steps, i)))
             ELSE color.l
        c == IF f["Chroma"].activeCurve # NULL
             THEN Upto(400, Sum(color.c,
                     FormulaValue("Chroma", f["Chroma"], steps, i)))
             ELSE color.c
        h == IF f["Hue"].activeCurve # NULL
             THEN Upto(360 * SCALE - 1, Sum(color.h,
                     FormulaValue("Hue", f["Hue"], steps, i)))
             ELSE color.h
    IN  [id |-> color.id, l |-> l, c |-> c, h |-> h, hex |-> oklchToHex(l, c, h)]

\* Variant: a property without a curve is put back to the base color's
\* value (the ramp for the lightness) instead of being left alone.
RecalculatedShade_ResetsInactive(st, color, i) ==
    LET f == st.formulas
        steps == st.amountOfShades
        l == IF f["Luminance"].activeCurve # NULL
             THEN FormulaValue("Luminance", f["Luminance"], steps, i)
             ELSE RDiv(SCALE * i, steps - 1)
        c == IF f["Chroma"].activeCurve # NULL
             THEN FormulaValue("Chroma", f["Chroma"], steps, i) ELSE st.baseColor.c
        h == IF f["Hue"].activeCurve # NULL
             THEN FormulaValue("Hue", f["Hue"], steps, i) ELSE st.baseColor.h
    IN  [id |-> color.id, l |-> l, c |-> c, h |-> h, hex |-> oklchToHex(l, c, h)]

\* Variant: the hex is refreshed only when some property has a curve.
RecalculatedShade_HexWhenActive(st, color, i) ==
    LET f == st.formulas
        steps == st.amountOfShades
        l == IF f["Luminance"].activeCurve # NULL
             THEN FormulaValue("Luminance", f["Luminance"], steps, i) ELSE color.l
        c == IF f["Chroma"].activeCurve # NULL
             THEN FormulaValue("Chroma", f["Chroma"], steps, i) ELSE color.c
        h == IF f["Hue"].activeCurve # NULL
             THEN FormulaValue("Hue", f["Hue"], steps, i) ELSE color.h
    IN  [id |-> color.id, l |-> l, c |-> c, h |-> h,
         hex |-> IF hasAnyActiveFormula(st) THEN oklchToHex(l, c, h)
                 ELSE color.hex]

\* One shade after the formulas and the hex refresh.
RecalculatedShade(st, color, i) ==
    LET f == st.formulas
        steps == st.amountOfShades
        l == IF f["Luminance"].activeCurve # NULL
             THEN FormulaValue("Luminance", f["Luminance"], steps, i) ELSE color.l
        c == IF f["Chroma"].activeCurve # NULL
             THEN FormulaValue("Chroma", f["Chroma"], steps, i) ELSE color.c
        h == IF f["Hue"].activeCurve # NULL
             THEN FormulaValue("Hue", f["Hue"], steps, i) ELSE color.h
    IN  [id |-> color.id, l |-> l, c |-> c, h |-> h, hex |-> oklchToHex(l, c, h)]

\* newState = {...state} shares paletteData with state: the shades are
\* written in place, in the array both states refer to.
recalculatePalette(m) ==
    LET a == m.st.paletteData
    IN  Config(m.st,
               [m.hp EXCEPT ![a] =
                   [j \in 1..Len(m.hp[a]) |->
                       RecalculatedShade(m.st, m.hp[a][j], j - 1)]])

\* Variant: the snapshot is taken anew at every call.
saveOriginalPaletteState_Always(m) ==
    LET a == Alloc(m.hp)
    IN  Config([m.st EXCEPT !.originalPaletteData = a],
               [m.hp EXCEPT ![a] = m.hp[m.st.paletteData]])

\* Variant: the snapshot is the palette's own array, not a copy.
saveOriginalPaletteState_Alias(m) ==
    IF m.st.originalPaletteData = NULL
    THEN Config([m.st EXCEPT !.originalPaletteData = m.st.paletteData], m.hp)
    ELSE m

\* A new array of copies of the shades, when none is saved yet.
saveOriginalPaletteState(m) ==
    IF m.st.originalPaletteData = NULL
    THEN LET a == Alloc(m.hp)
         IN  Config([m.st EXCEPT !.originalPaletteData = a],
                    [m.hp EXCEPT ![a] = m.hp[m.st.paletteData]])
    ELSE m

\* Variant: without a snapshot the reset rebuilds the default palette.
resetPaletteToOriginal_Rebuilds(m) ==
    LET a == Alloc(m.hp)
    IN  IF m.st.originalPaletteData = NULL
        THEN Config([m.st EXCEPT !.paletteData = a],
                    [m.hp EXCEPT ![a] = initializePaletteData(m.st.baseColor,
                                                              m.st.amountOfShades)])
        ELSE Config([m.st EXCEPT
                        !.paletteData = a,
                        !.originalPaletteData = NULL,
                        !.formulas = [p \in Properties |->
                                         createPropertyFormulaConfig(p)]],
                    [m.hp EXCEPT ![a] = m.hp[m.st.originalPaletteData]])

\* Variant: the reset restores the shades and keeps the formulas.
resetPaletteToOriginal_KeepsFormulas(m) ==
    IF m.st.originalPaletteData = NULL
    THEN m
    ELSE LET a == Alloc(m.hp)
         IN  Config([m.st EXCEPT
                        !.paletteData = a,
                        !.originalPaletteData = NULL],
                    [m.hp EXCEPT ![a] = m.hp[m.st.originalPaletteData]])

resetPaletteToOriginal(m) ==
    IF m.st.originalPaletteData = NULL
    THEN m
    ELSE LET a == Alloc(m.hp)
         IN  Config([m.st EXCEPT
                        !.paletteData = a,
                        !.originalPaletteData = NULL,
                        !.formulas = [p \in Properties |->
                                         createPropertyFormulaConfig(p)]],
                    [m.hp EXCEPT ![a] = m.hp[m.st.originalPaletteData]])

\* ------------------------------------------------------------------------
\* The plugin UI (part_000): state, rendering, inputs
\* ------------------------------------------------------------------------

VARIABLES
    pluginState,   \* the PluginState object the UI's pluginState refers to
    heap,          \* the shade arrays, by address
    ui,            \* what the last rendering put on screen and captured
    savedPalette,  \* history: the shades as they were just before the step
                   \* that made originalPaletteData non-null (<<>> when null)
    savedTwice,    \* history: saveOriginalPaletteState has been called again
                   \* since originalPaletteData became non-null
    restored,      \* history: the last handler that ran was the reset
    used,          \* history: the counted events so far
    plugin,        \* plugin.ts: the selection, the debounce timer, the host
                   \* and what was sent to the UI (NULL where the plugin side
                   \* is not part of the specification)
    assets,        \* color-assets.ts: a call's arguments and what it returned
                   \* (NULL where no call is part of the specification)
    session,       \* the messages in flight between the UI and plugin.ts,
                   \* and what the UI held when Add was clicked (NULL where
                   \* the exchange is not part of the specification)
    addButton      \* the add button, the create-assets flag and the restore
                   \* timers of the UI (NULL where they are not part of the
                   \* specification)

vars == <<pluginState, heap, ui, savedPalette, savedTwice, restored, used,
          plugin, assets, session, addButton>>

\* Variant: the literal gives every property the range 0..1.
FreshFormulas_UnitRanges ==
    [p \in Properties |->
        [activeCurve |-> NULL, curveParams |-> EmptyParams,
         formulaRange |-> [from |-> 0, to |-> SCALE]]]

\* The formulas literal the colour picker and the shade slider assign.
FreshFormulas ==
    [p \in Properties |->
        [activeCurve |-> NULL, curveParams |-> EmptyParams,
         formulaRange |->
            CASE p = "Luminance" -> [from |-> 0, to |-> SCALE]
              [] p = "Chroma"    -> [from |-> 0, to |-> 400]
              [] p = "Hue"       -> [from |-> 0, to |-> 360 * SCALE]]]

\* The vertical sliders' max for a property (updateVerticalSliders).
maxRange(property) ==
    CASE property = "Luminance" -> 100
      [] property = "Chroma"    -> 40
      [] property = "Hue"       -> 360

\* What updateUI renders from a state: one vertical slider and one numeric
\* input per shade, for the active property; the parameter controls, shown
\* when the active property has a curve, their numeric inputs' listeners
\* capturing currentFormula; the reset button, shown when a snapshot exists.
\* Hidden controls receive no input, so what hidden listeners captured is
\* not kept.
updateUI(st) ==
    LET currentFormula == getActivePropertyFormula(st)
        shown == currentFormula.activeCurve # NULL
    IN  [sliderCount   |-> st.amountOfShades,
         sliderMax     |-> maxRange(st.activeProperty),
         paramsShown   |-> shown,
         currentFormula |-> IF shown
                            THEN [activeCurve |-> currentFormula.activeCurve,
                                  curveParams |-> currentFormula.curveParams]
                            ELSE [activeCurve |-> NULL,
                                  curveParams |-> EmptyParams],
         resetShown    |-> st.originalPaletteData # NULL]

\* The text of a numeric input as parseFloat reads it.
Number(v) == [isNaN |-> FALSE, value |-> v]
NotANumber == [isNaN |-> TRUE, value |-> 0]

\* The shades edited by hand (0-based): the second, which every palette
\* has.
EditedShades == {MinShades - 1}

\* Positions the vertical sliders are moved to (integers in 0..max).
SliderStops(max) == {max}

\* Texts typed into a shade's numeric input: 5, which is above the range of
\* the lightness and of the chroma, and one that is no number.
ValueTexts == {Number(5 * SCALE), NotANumber}

\* Positions the parameter sliders are moved to (0..100).
ParamStops == {50}

\* Texts typed into a parameter's numeric input.
ParamTexts == {Number(250), NotANumber}

\* The end of a handler: the state and heap it leaves, garbage collected;
\* the screen, rendered anew when the handler calls updateUI.
\* event names the handler: "reset", "save" for a curve click that calls
\* saveOriginalPaletteState, "other" for the rest.
CommitUI(m, render, counted, event) ==
    LET n == Collect(m)
    IN  /\ pluginState' = n.st
        /\ heap' = n.hp
        /\ ui' = IF render THEN updateUI(n.st) ELSE ui
        /\ savedPalette' =
              IF n.st.originalPaletteData = NULL THEN <<>>
              ELSE IF pluginState.originalPaletteData = NULL
                   THEN heap[pluginState.paletteData]
                   ELSE savedPalette
        /\ savedTwice' =
              /\ n.st.originalPaletteData # NULL
              /\ \/ savedTwice
                 \/ event = "save" /\ pluginState.originalPaletteData # NULL
        /\ restored' = (event = "reset")
        /\ used' = IF counted THEN used + 1 ELSE used

\* The end of a handler of the UI that posts no message and leaves the add
\* button alone.
Commit(m, render, counted, event) ==
    /\ CommitUI(m, render, counted, event)
    /\ UNCHANGED <<plugin, assets, session, addButton>>

Now == Config(pluginState, heap)

\* The end of a listener that returned at its first check: the state and
\* heap it leaves; nothing was rendered and no handler body ran.
Returned(m) ==
    LET n == Collect(m)
    IN  /\ pluginState' = n.st
        /\ heap' = n.hp
        /\ UNCHANGED <<ui, savedPalette, savedTwice, restored, used,
                       plugin, assets, session, addButton>>

\* Variant: the array is kept when it already has amountOfShades shades.
Rebuild_KeepsSameLength(m) ==
    IF Len(m.hp[m.st.paletteData]) = m.st.amountOfShades THEN m
    ELSE LET a == Alloc(m.hp)
         IN  Config([m.st EXCEPT !.paletteData = a],
                    [m.hp EXCEPT ![a] = initializePaletteData(m.st.baseColor,
                                                              m.st.amountOfShades)])

\* pluginState.paletteData = initializePaletteData(baseColor, amountOfShades)
Rebuild(m) ==
    LET a == Alloc(m.hp)
    IN  Config([m.st EXCEPT !.paletteData = a],
               [m.hp EXCEPT ![a] = initializePaletteData(m.st.baseColor,
                                                         m.st.amountOfShades)])

\* The end of a numeric input's listener: it returned at its first check
\* (early), or it ran and called updatePalette.
Conclude(m, early) ==
    IF early THEN Returned(m) ELSE Commit(m, FALSE, TRUE, "other")

\* ------------------------------------------------------------------------
\* The event handlers
\* ------------------------------------------------------------------------

\* colorPicker 'input'.
ColorPickerHandler(m, hex) ==
    LET m1 == Config([m.st EXCEPT !.baseColor = hexToOklch(hex)], m.hp)
        m2 == Rebuild(m1)
        m3 == Config([m2.st EXCEPT !.originalPaletteData = NULL,
                                   !.formulas = FreshFormulas], m2.hp)
    IN  recalculatePalette(m3)

ColorPicker(hex) ==
    /\ used < MaxEvents
    /\ Commit(ColorPickerHandler(Now, hex), TRUE, TRUE, "other")

\* Variant: the shade-count input keeps the snapshot.
ShadesSliderHandler_KeepsSnapshot(m, n) ==
    LET m1 == Config([m.st EXCEPT !.amountOfShades = n], m.hp)
        m2 == Rebuild(m1)
        m3 == Config([m2.st EXCEPT !.formulas = FreshFormulas], m2.hp)
    IN  recalculatePalette(m3)

\* shadesSlider 'input'.
ShadesSliderHandler(m, n) ==
    LET m1 == Config([m.st EXCEPT !.amountOfShades = n], m.hp)
        m2 == Rebuild(m1)
        m3 == Config([m2.st EXCEPT !.originalPaletteData = NULL,
                                   !.formulas = FreshFormulas], m2.hp)
    IN  recalculatePalette(m3)

ShadesSlider(n) ==
    /\ used < MaxEvents
    /\ Commit(ShadesSliderHandler(Now, n), TRUE, TRUE, "other")

\* Variant: a tab click also switches off the curve of the tab it opens.
TabHandler_ClearsCurve(m, index) ==
    Config([m.st EXCEPT !.activeProperty = tabNames[index],
                        !.formulas[tabNames[index]].activeCurve = NULL,
                        !.formulas[tabNames[index]].curveParams = EmptyParams],
           m.hp)

\* A channel tab's 'click'.
TabHandler(m, index) ==
    Config([m.st EXCEPT !.activeProperty = tabNames[index]], m.hp)

TabClick(index) ==
    /\ index \in DOMAIN tabNames
    /\ Commit(TabHandler(Now, index), TRUE, FALSE, "other")

\* Variant: toggling a curve off puts the palette back to the default one.
FunctionBtnHandler_ToggleResets(m, btnText) ==
    LET currentFormula == getActivePropertyFormula(m.st)
        m1 == IF currentFormula.activeCurve = btnText
              THEN Rebuild(updateActivePropertyFormula(m,
                      [activeCurve |-> NULL, curveParams |-> EmptyParams]))
              ELSE LET ms == IF ~hasAnyActiveFormula(m.st)
                             THEN saveOriginalPaletteState(m) ELSE m
                   IN  updateActivePropertyFormula(ms,
                          [activeCurve |-> btnText,
                           curveParams |-> getDefaultParameters(btnText)])
    IN  recalculatePalette(m1)

\* Variant: toggling off the last curve drops the snapshot.
FunctionBtnHandler_ClearsOnLastOff(m, btnText) ==
    LET currentFormula == getActivePropertyFormula(m.st)
        m1 == IF currentFormula.activeCurve = btnText
              THEN LET mo == updateActivePropertyFormula(m,
                                [activeCurve |-> NULL, curveParams |-> EmptyParams])
                   IN  IF hasAnyActiveFormula(mo.st) THEN mo
                       ELSE Config([mo.st EXCEPT !.originalPaletteData = NULL],
                                   mo.hp)
              ELSE LET ms == IF ~hasAnyActiveFormula(m.st)
                             THEN saveOriginalPaletteState(m) ELSE m
                   IN  updateActivePropertyFormula(ms,
                          [activeCurve |-> btnText,
                           curveParams |-> getDefaultParameters(btnText)])
    IN  recalculatePalette(m1)

\* Variant: the snapshot is saved after the curve has been applied.
FunctionBtnHandler_SavesAfter(m, btnText) ==
    LET currentFormula == getActivePropertyFormula(m.st)
    IN  IF currentFormula.activeCurve = btnText
        THEN recalculatePalette(updateActivePropertyFormula(m,
                [activeCurve |-> NULL, curveParams |-> EmptyParams]))
        ELSE LET m1 == recalculatePalette(updateActivePropertyFormula(m,
                          [activeCurve |-> btnText,
                           curveParams |-> getDefaultParameters(btnText)]))
             IN  IF ~hasAnyActiveFormula(m.st)
                 THEN saveOriginalPaletteState(m1) ELSE m1

\* Variant: activating a curve keeps the parameters the property's formula
\* already holds and adds the defaults of the others.
FunctionBtnHandler_KeepsParams(m, btnText) ==
    LET currentFormula == getActivePropertyFormula(m.st)
        defaults == getDefaultParameters(btnText)
        m1 == IF currentFormula.activeCurve = btnText
              THEN updateActivePropertyFormula(m,
                      [activeCurve |-> NULL, curveParams |-> EmptyParams])
              ELSE LET ms == IF ~hasAnyActiveFormula(m.st)
                             THEN saveOriginalPaletteState(m) ELSE m
                   IN  updateActivePropertyFormula(ms,
                          [activeCurve |-> btnText,
                           curveParams |->
                              [n \in DOMAIN currentFormula.curveParams
                                       \cup DOMAIN defaults |->
                                  IF n \in DOMAIN currentFormula.curveParams
                                  THEN currentFormula.curveParams[n]
                                  ELSE defaults[n]]])
    IN  recalculatePalette(m1)

\* A curve button's 'click': toggle off the active curve, or activate
\* another, saving the original palette before the first formula.
FunctionBtnHandler(m, btnText) ==
    LET currentFormula == getActivePropertyFormula(m.st)
        m1 == IF currentFormula.activeCurve = btnText
              THEN updateActivePropertyFormula(m,
                      [activeCurve |-> NULL, curveParams |-> EmptyParams])
              ELSE LET ms == IF ~hasAnyActiveFormula(m.st)
                             THEN saveOriginalPaletteState(m) ELSE m
                   IN  updateActivePropertyFormula(ms,
                          [activeCurve |-> btnText,
                           curveParams |-> getDefaultParameters(btnText)])
    IN  recalculatePalette(m1)

\* The opening of a run that is not counted against MaxEvents: the click on
\* Linear, on the Luminance tab, before any counted event and with no
\* snapshot saved.
Opening(btnText) ==
    /\ used = 0
    /\ btnText = "Linear"
    /\ pluginState.activeProperty = "Luminance"
    /\ pluginState.originalPaletteData = NULL

\* The click calls saveOriginalPaletteState: it activates a curve while no
\* property has one.
CallsSave(st, btnText) ==
    /\ getActivePropertyFormula(st).activeCurve # btnText
    /\ ~hasAnyActiveFormula(st)

FunctionBtnClick(btnText) ==
    LET event == IF CallsSave(pluginState, btnText) THEN "save" ELSE "other"
    IN  IF getActivePropertyFormula(pluginState).activeCurve = btnText
           \/ Opening(btnText)
        THEN Commit(FunctionBtnHandler(Now, btnText), TRUE, FALSE, event)
        ELSE /\ used < MaxEvents
             /\ Commit(FunctionBtnHandler(Now, btnText), TRUE, TRUE, event)

\* A parameter slider's 'input'; index is 0-based, rawValue the position.
\* The handler returns at once when the active property has no curve or
\* the curve has no parameter at this index.
ParamSliderActs(st, index) ==
    /\ getActivePropertyFormula(st).activeCurve # NULL
    /\ index + 1 \in DOMAIN getParameterLabels(getActivePropertyFormula(st).activeCurve)

ParamSliderHandler(m, index, rawValue) ==
    LET currentFormula == getActivePropertyFormula(m.st)
        labels == getParameterLabels(currentFormula.activeCurve)
        label == labels[index + 1]
        scaledValue == IF label = "d" THEN rawValue * 10 * 5
                       ELSE IF label = "k" THEN rawValue * 10 * 2
                       ELSE rawValue * 10
        newParams == [n \in DOMAIN currentFormula.curveParams \cup {label} |->
                         IF n = label THEN scaledValue
                         ELSE currentFormula.curveParams[n]]
    IN  recalculatePalette(
            updateActivePropertyFormula(m, [curveParams |-> newParams]))

ParamSliderInput(index, rawValue) ==
    /\ ui.paramsShown
    /\ index + 1 \in DOMAIN getParameterLabels(ui.currentFormula.activeCurve)
    /\ IF ParamSliderActs(pluginState, index)
       THEN /\ used < MaxEvents
            /\ Commit(ParamSliderHandler(Now, index, rawValue), TRUE, TRUE, "other")
       ELSE UNCHANGED vars

\* A parameter numeric input's 'input'.  The listener was added by the last
\* rendering that showed the controls and captured that rendering's
\* currentFormula and label; it calls updatePalette, not updateUI.
ParamValueHandler(m, captured, label, inputValue) ==
    LET newParams == [n \in DOMAIN captured.curveParams \cup {label} |->
                         IF n = label THEN inputValue
                         ELSE captured.curveParams[n]]
    IN  recalculatePalette(
            updateActivePropertyFormula(m, [curveParams |-> newParams]))

\* The listener from its first line: inputValue = parseFloat(text), and
\* `if (isNaN(inputValue)) return;` before anything is touched.
ParamValueListener(m, captured, label, text) ==
    IF text.isNaN THEN m
    ELSE ParamValueHandler(m, captured, label, text.value)

ParamValueInput(index, text) ==
    /\ ui.paramsShown
    /\ index + 1 \in DOMAIN getParameterLabels(ui.currentFormula.activeCurve)
    /\ text.isNaN \/ used < MaxEvents
    /\ Conclude(ParamValueListener(Now, ui.currentFormula,
                   getParameterLabels(ui.currentFormula.activeCurve)[index + 1],
                   text),
                text.isNaN)

\* Variant: the value is written to every shade of the active property.
SetShadeValue_AllShades(m, i, value) ==
    LET a == m.st.paletteData
        p == m.st.activeProperty
    IN  Config(m.st,
               [m.hp EXCEPT ![a] =
                   [j \in 1..Len(m.hp[a]) |->
                       CASE p = "Luminance" -> [m.hp[a][j] EXCEPT !.l = value]
                         [] p = "Chroma"    -> [m.hp[a][j] EXCEPT !.c = value]
                         [] p = "Hue"       -> [m.hp[a][j] EXCEPT !.h = value]]])

\* Writes paletteData[i] of the active property in place.
SetShadeValue(m, i, value) ==
    LET a == m.st.paletteData
        p == m.st.activeProperty
    IN  Config(m.st,
               [m.hp EXCEPT ![a][i + 1] =
                   CASE p = "Luminance" -> [@ EXCEPT !.l = value]
                     [] p = "Chroma"    -> [@ EXCEPT !.c = value]
                     [] p = "Hue"       -> [@ EXCEPT !.h = value]])

\* Variant: a manual edit switches every property's formula off.
DisableActiveFormula_All(m) ==
    IF getActivePropertyFormula(m.st).activeCurve # NULL
    THEN Config([m.st EXCEPT !.formulas =
                    [p \in Properties |->
                        [@[p] EXCEPT !.activeCurve = NULL,
                                     !.curveParams = EmptyParams]]], m.hp)
    ELSE m

\* Variant: a manual edit also drops the snapshot.
DisableActiveFormula_DropsSnapshot(m) ==
    IF getActivePropertyFormula(m.st).activeCurve # NULL
    THEN LET mo == updateActivePropertyFormula(m,
                      [activeCurve |-> NULL, curveParams |-> EmptyParams])
         IN  Config([mo.st EXCEPT !.originalPaletteData = NULL], mo.hp)
    ELSE m

\* Both manual-edit listeners first switch the active property's formula
\* off.
DisableActiveFormula(m) ==
    IF getActivePropertyFormula(m.st).activeCurve # NULL
    THEN updateActivePropertyFormula(m,
            [activeCurve |-> NULL, curveParams |-> EmptyParams])
    ELSE m

\* Shade i's vertical slider 'input', at position sliderValue:
\* l = v / 100, c = (v / 40) * 0.4, h = v.
VerticalSliderHandler(m, i, sliderValue) ==
    LET m1 == DisableActiveFormula(m)
        value == IF m1.st.activeProperty = "Hue" THEN sliderValue * SCALE
                 ELSE sliderValue * 10
    IN  recalculatePalette(SetShadeValue(m1, i, value))

VerticalSliderInput(i, sliderValue) ==
    /\ used < MaxEvents
    /\ i < ui.sliderCount
    /\ sliderValue \in 0..ui.sliderMax
    /\ Commit(VerticalSliderHandler(Now, i, sliderValue), FALSE, TRUE, "other")

\* Shade i's numeric input 'input': the number typed is stored as it is.
ValueInputHandler(m, i, inputValue) ==
    recalculatePalette(SetShadeValue(DisableActiveFormula(m), i, inputValue))

\* Variant: the active property's formula is switched off before the
\* text is looked at.
ValueInputListener_DisablesFirst(m, i, text) ==
    IF text.isNaN THEN DisableActiveFormula(m)
    ELSE ValueInputHandler(m, i, text.value)

\* The listener from its first line: inputValue = parseFloat(text), and
\* `if (isNaN(inputValue)) return;` before anything is touched.
ValueInputListener(m, i, text) ==
    IF text.isNaN THEN m
    ELSE ValueInputHandler(m, i, text.value)

ValueInput(i, text) ==
    /\ i < ui.sliderCount
    /\ text.isNaN \/ used < MaxEvents
    /\ Conclude(ValueInputListener(Now, i, text), text.isNaN)

\* The reset button's 'click'.
ResetHandler(m) == resetPaletteToOriginal(m)

ResetClick ==
    /\ ui.resetShown
    /\ Commit(ResetHandler(Now), TRUE, FALSE, "reset")

\* Variant: a message without a color rebuilds the palette from the base
\* color.
BaseColorHandler_NullRebuilds(m, color) ==
    IF color # NULL
    THEN LET m1 == Config([m.st EXCEPT !.baseColor = hexToOklch(color),
                                       !.isNodeSelected = TRUE], m.hp)
         IN  recalculatePalette(Rebuild(m1))
    ELSE Rebuild(Config([m.st EXCEPT !.isNodeSelected = FALSE], m.hp))

\* Variant: a message with a color rebuilds the palette and does not
\* recalculate it.
BaseColorHandler_NoRecalculate(m, color) ==
    IF color # NULL
    THEN LET m1 == Config([m.st EXCEPT !.baseColor = hexToOklch(color),
                                       !.isNodeSelected = TRUE], m.hp)
         IN  Rebuild(m1)
    ELSE Config([m.st EXCEPT !.isNodeSelected = FALSE], m.hp)

\* window 'message' of type base-color; color is a hex string or null.
BaseColorHandler(m, color) ==
    IF color # NULL
    THEN LET m1 == Config([m.st EXCEPT !.baseColor = hexToOklch(color),
                                       !.isNodeSelected = TRUE], m.hp)
         IN  recalculatePalette(Rebuild(m1))
    ELSE Config([m.st EXCEPT !.isNodeSelected = FALSE], m.hp)

BaseColorMessage(color) ==
    IF color # NULL
    THEN /\ used < MaxEvents
         /\ Commit(BaseColorHandler(Now, color), TRUE, TRUE, "other")
    ELSE Commit(BaseColorHandler(Now, color), FALSE, FALSE, "other")

\* ------------------------------------------------------------------------
\* The specification
\* ------------------------------------------------------------------------

\* The state after construction: createInitialState({l: 0.5, c: 0.1, h: 0},
\* steps) and the first updateUI.
Init ==
    LET m == Collect(createInitialState([l |-> 500, c |-> 100, h |-> 0],
                                         InitialShades))
    IN  /\ pluginState = m.st
        /\ heap = m.hp
        /\ ui = updateUI(m.st)
        /\ savedPalette = <<>>
        /\ savedTwice = FALSE
        /\ restored = FALSE
        /\ used = 0
        /\ plugin = NULL
        /\ assets = NULL
        /\ session = NULL
        /\ addButton = NULL

Next ==
    \/ \E hex \in PickerColors : ColorPicker(hex)
    \/ \E n \in ShadeCounts : ShadesSlider(n)
    \/ \E index \in DOMAIN tabNames : TabClick(index)
    \/ \E btnText \in curveTypes : FunctionBtnClick(btnText)
    \/ \E index \in 0..3, rawValue \in ParamStops : ParamSliderInput(index, rawValue)
    \/ \E index \in 0..3, text \in ParamTexts : ParamValueInput(index, text)
    \/ \E i \in EditedShades, v \in SliderStops(ui.sliderMax) :
          VerticalSliderInput(i, v)
    \/ \E i \in EditedShades, text \in ValueTexts : ValueInput(i, text)
    \/ ResetClick
    \/ \E color \in PickerColors \cup {NULL} : BaseColorMessage(color)

Spec == Init /\ [][Next]_vars

\* ------------------------------------------------------------------------
\* The functions of color-converter.ts on their own
\* ------------------------------------------------------------------------

\* The shade counts the functions are called with: one shade, the
\* smallest count of the UI, and five.
EngineSteps == {1, MinShades, 5}

\* The parameter maps a curve is given: none of its parameters, its
\* defaults, every parameter at 0 (the low end of each control), and a map
\* that takes the curve out of [0, 1] on both sides.
EngineParams(curveType) ==
    LET labels == getParameterLabels(curveType)
    IN  {EmptyParams,
         getDefaultParameters(curveType),
         [n \in {labels[k] : k \in DOMAIN labels} |-> 0],
         [n \in {labels[k] : k \in DOMAIN labels} |->
             CASE n = "d" -> 0 - SCALE
               [] n = "c" -> 0 - 500
               [] OTHER   -> 2 * SCALE]}

\* createInitialState with a shade count of EngineSteps.
EngineInit ==
    \E steps \in EngineSteps :
        LET m == Collect(createInitialState([l |-> 500, c |-> 100, h |-> 0], steps))
        IN  /\ pluginState = m.st
            /\ heap = m.hp
            /\ ui = updateUI(m.st)
            /\ savedPalette = <<>>
            /\ savedTwice = FALSE
            /\ restored = FALSE
            /\ used = 0
            /\ plugin = NULL
            /\ assets = NULL
            /\ session = NULL
            /\ addButton = NULL

\* updateActivePropertyFormula and recalculatePalette, as the handlers call
\* them, for a property that has no curve yet.
EngineActivate(index, curveType, params) ==
    /\ pluginState.formulas[tabNames[index]].activeCurve = NULL
    /\ Commit(recalculatePalette(
                 updateActivePropertyFormula(TabHandler(Now, index),
                    [activeCurve |-> curveType, curveParams |-> params])),
              TRUE, FALSE, "other")

\* recalculatePalette on the state as it is.
EngineRecalculate ==
    /\ heap[pluginState.paletteData] # Free
    /\ Commit(recalculatePalette(Now), TRUE, FALSE, "other")

EngineNext ==
    \/ \E index \in DOMAIN tabNames, curveType \in curveTypes :
          \E params \in EngineParams(curveType) :
             EngineActivate(index, curveType, params)
    \/ EngineRecalculate

EngineSpec == EngineInit /\ [][EngineNext]_vars

\* ------------------------------------------------------------------------
\* color-assets.ts: the names of a palette's colors, the library assets
\* ------------------------------------------------------------------------

\* A string is the sequence of its characters.
HexDigits ==
    <<"0", "1", "2", "3", "4", "5", "6", "7", "8", "9",
      "a", "b", "c", "d", "e", "f">>
UpperHexDigits ==
    <<"0", "1", "2", "3", "4", "5", "6", "7", "8", "9",
      "A", "B", "C", "D", "E", "F">>

IsHexDigit(ch) ==
    \E k \in 1..16 : HexDigits[k] = ch \/ UpperHexDigits[k] = ch

DigitValue(ch) ==
    (CHOOSE k \in 1..16 : HexDigits[k] = ch \/ UpperHexDigits[k] = ch) - 1

\* /^#[0-9A-F]{6}$/i.test(hex)
isValidHexColor(hex) ==
    /\ Len(hex) = 7
    /\ hex[1] = "#"
    /\ \A k \in 2..7 : IsHexDigit(hex[k])

\* parseInt(hex.slice(start, start + 2), 16), of two hex digits.
ParseByte(hex, start) ==
    16 * DigitValue(hex[start + 1]) + DigitValue(hex[start + 2])

\* The switch on max, and Math.round(h * 60); the hue is in whole degrees.
\* ((g - b) / diff) % 6 is (g - b) / diff, which lies in -1..1.
HueOf(r, g, b, max, diff) ==
    IF diff = 0 THEN 0
    ELSE IF max = r THEN RDiv(60 * (g - b), diff)
    ELSE IF max = g THEN RDiv(60 * (b - r) + 120 * diff, diff)
    ELSE RDiv(60 * (r - g) + 240 * diff, diff)

\* if (h < 0) h += 360
WrapHue(h) == IF h < 0 THEN h + 360 ELSE h

\* l is in units of 1/510 (max + min of the bytes); s is the fraction
\* num / den, which the code only compares with 0.1.
HslOf(r, g, b, max, min) ==
    [h |-> WrapHue(HueOf(r, g, b, max, max - min)),
     s |-> IF max = min THEN [num |-> 0, den |-> 1]
           ELSE [num |-> max - min, den |-> 255 - Abs(max + min - 255)],
     l |-> max + min]

RgbToHsl(r, g, b) == HslOf(r, g, b, Max(r, Max(g, b)), Min(r, Min(g, b)))

hexToHsl(hex) ==
    RgbToHsl(ParseByte(hex, 1), ParseByte(hex, 3), ParseByte(hex, 5))

\* saturation <= 0.1
LowSaturation(s) == 10 * s.num <= s.den

getBaseColorName(hue, saturation) ==
    IF LowSaturation(saturation) THEN "gray"
    ELSE IF hue >= 0 /\ hue < 15 THEN "red"
    ELSE IF hue >= 15 /\ hue < 45 THEN "orange"
    ELSE IF hue >= 45 /\ hue < 75 THEN "yellow"
    ELSE IF hue >= 75 /\ hue < 105 THEN "lime"
    ELSE IF hue >= 105 /\ hue < 135 THEN "green"
    ELSE IF hue >= 135 /\ hue < 165 THEN "teal"
    ELSE IF hue >= 165 /\ hue < 195 THEN "cyan"
    ELSE IF hue >= 195 /\ hue < 225 THEN "blue"
    ELSE IF hue >= 225 /\ hue < 255 THEN "indigo"
    ELSE IF hue >= 255 /\ hue < 285 THEN "purple"
    ELSE IF hue >= 285 /\ hue < 315 THEN "pink"
    ELSE IF hue >= 315 /\ hue < 345 THEN "rose"
    ELSE "red"

\* Math.min(diff, 360 - diff) <= tolerance, tolerance at its default, 20.
WithinTolerance(diff) == Min(diff, 360 - diff) <= 20

areHuesSimilar(hue1, hue2) == WithinTolerance(Abs(hue1 - hue2))

\* The least member of a set of numbers, or, of the empty set, none.
Least(S, none) ==
    IF S = {} THEN none ELSE CHOOSE k \in S : \A j \in S : k <= j

\* The indices 1..n, in order.
Indices(n) == [k \in 1..n |-> k]

\* list[order[1]], list[order[2]], ...
Permuted(list, order) == [k \in 1..Len(order) |-> list[order[k]]]

\* Index i put into rest after the k indices it comes after.
InsertAt(rest, i, k) ==
    SubSeq(rest, 1, k) \o <<i>> \o SubSeq(rest, k + 1, Len(rest))

\* Index i put into the sorted indices after it: behind those of a greater
\* key, before those of an equal or smaller one.
InsertSorted(keys, i, rest) ==
    InsertAt(rest, i,
             Cardinality({j \in 1..Len(rest) : keys[rest[j]] > keys[i]}))

\* Array.prototype.sort((a, b) => b.l - a.l), which is stable: the indices
\* of keys from index i on, in the order the sort leaves them.
RECURSIVE SortedFrom(_, _)
SortedFrom(keys, i) ==
    IF i > Len(keys) THEN <<>>
    ELSE InsertSorted(keys, i, SortedFrom(keys, i + 1))

SortDescending(keys) == SortedFrom(keys, 1)

\* `${baseName}-${Math.min(900, weight)}`
ColorName(baseName, weight) == [base |-> baseName, weight |-> Min(900, weight)]

\* {hex: color, ...hexToHsl(color)}
WithHex(hex, hsl) == [hex |-> hex, h |-> hsl.h, s |-> hsl.s, l |-> hsl.l]

HslColors(colors) ==
    [k \in 1..Len(colors) |-> WithHex(colors[k], hexToHsl(colors[k]))]

Lightnesses(hslColors) == [k \in 1..Len(hslColors) |-> hslColors[k].l]

\* [...hslColors].sort((a, b) => b.l - a.l)
SortedColors(hslColors) ==
    Permuted(hslColors, SortDescending(Lightnesses(hslColors)))

\* The base name of each color by its own hue and saturation.
BaseNames(hslColors) ==
    [k \in 1..Len(hslColors) |->
        getBaseColorName(hslColors[k].h, hslColors[k].s)]

\* hueGroups[baseName] of colors[k]: the indices of the colors of its
\* base name, in input order.
GroupOf(baseName, k) ==
    LET InGroup(j) == baseName[j] = baseName[k]
    IN  SelectSeq(Indices(Len(baseName)), InGroup)

\* group.sort((a, b) => b.lightness - a.lightness)
SortedGroup(group, hslColors) ==
    Permuted(group,
             SortDescending([j \in 1..Len(group) |-> hslColors[group[j]].l]))

\* Variant: a color alone in its hue group is named like the lightest of a
\* larger group.
NameInGroup_SingleIs100(baseName, group, k) ==
    ColorName(baseName,
              100 + (Least({j \in 1..Len(group) : group[j] = k}, 0) - 1) * 100)

\* The name of colors[k] in its sorted group.
NameInGroup(baseName, group, k) ==
    IF Len(group) = 1
    THEN [base |-> baseName, weight |-> 500]
    ELSE ColorName(baseName,
             100 + (Least({j \in 1..Len(group) : group[j] = k}, 0) - 1) * 100)

GroupedNamesFrom(hslColors, baseName) ==
    [k \in 1..Len(hslColors) |->
        NameInGroup(baseName[k],
                    SortedGroup(GroupOf(baseName, k), hslColors), k)]

GroupedNamesOf(hslColors) == GroupedNamesFrom(hslColors, BaseNames(hslColors))

\* The branch for colors of different hues; result[k] is the name of
\* colors[k].
GroupedNames(colors) == GroupedNamesOf(HslColors(colors))

AllSimilarHues(sortedColors, firstHue, firstSaturation) ==
    \A k \in 1..Len(sortedColors) :
       \/ areHuesSimilar(sortedColors[k].h, firstHue)
       \/ LowSaturation(sortedColors[k].s) /\ LowSaturation(firstSaturation)

\* The branch for colors of similar hues: sortedIndex is
\* sortedColors.findIndex(sorted => sorted.hex === originalColor).
SimilarNames(colors, sortedColors, baseName) ==
    [k \in 1..Len(colors) |->
        ColorName(baseName,
            100 + (Least({j \in 1..Len(sortedColors) :
                             sortedColors[j].hex = colors[k]}, 0) - 1) * 100)]

NamesFrom(colors, sortedColors) ==
    IF AllSimilarHues(sortedColors, sortedColors[1].h, sortedColors[1].s)
    THEN SimilarNames(colors, sortedColors,
                      getBaseColorName(sortedColors[1].h, sortedColors[1].s))
    ELSE GroupedNames(colors)

generatePaletteColorNames(colors) ==
    IF Len(colors) = 0 THEN <<>>
    ELSE NamesFrom(colors, SortedColors(HslColors(colors)))

\* colors.filter(color => isValidHexColor(color)), and the colors the
\* filter pushes to failed.
ValidOnes(colors) == SelectSeq(colors, isValidHexColor)

Rejected(colors) ==
    LET IsNotValid(color) == ~isValidHexColor(color)
    IN  SelectSeq(colors, IsNotValid)

\* The calls, of n, at which the host did outcome.
Where(outcomes, n, outcome) ==
    LET Did(k) == outcomes[k] = outcome
    IN  SelectSeq(Indices(n), Did)

\* The assets pushed for the colors of the indices created.
AssetsOf(colors, colorNames, groupName, created) ==
    [j \in 1..Len(created) |->
        [name |-> colorNames[created[j]], color |-> colors[created[j]],
         groupName |-> groupName]]

\* Variant: the first color the host refuses ends the batch.
BatchOf_StopsAtThrow(colors, validColors, groupName, outcomes) ==
    LET n == Len(validColors)
        stop == Least({k \in 1..n : outcomes[k] = "throws"}, n + 1)
    IN  [success |-> AssetsOf(validColors, generatePaletteColorNames(validColors),
                              groupName, Indices(stop - 1)),
         failed |-> Rejected(colors)
                      \o (IF stop <= n THEN <<validColors[stop]>> ELSE <<>>),
         attempted |-> SubSeq(validColors, 1, Min(stop, n))]

\* outcomes[k] is what the host does at the k-th createColor call: "ok" or
\* "throws".  attempted lists the colors createColor was called for; the
\* function returns success and failed.
BatchOf(colors, validColors, groupName, outcomes) ==
    IF Len(validColors) = 0
    THEN [success |-> <<>>, failed |-> Rejected(colors), attempted |-> <<>>]
    ELSE [success |-> AssetsOf(validColors,
                               generatePaletteColorNames(validColors),
                               groupName,
                               Where(outcomes, Len(validColors), "ok")),
          failed |-> Rejected(colors)
                       \o Permuted(validColors,
                                   Where(outcomes, Len(validColors), "throws")),
          attempted |-> validColors]

batchCreateColorAssets(colors, groupName, outcomes) ==
    BatchOf(colors, ValidOnes(colors), groupName, outcomes)

\* The strings the functions are called with.  Hex(...) is "#" followed by
\* six characters.
Hex(a, b, c, d, e, f) == <<"#", a, b, c, d, e, f>>

\* #ff9999 and #cc0000 are reds of hue 0; #ff4400 is an orange of hue 16,
\* within the tolerance of the reds; #ffbb00 is an orange of hue 44, as
\* light as #ff4400 and outside the tolerance of the others; #808080 has
\* no saturation.
ValidColors ==
    {Hex("f", "f", "9", "9", "9", "9"), Hex("c", "c", "0", "0", "0", "0"),
     Hex("f", "f", "4", "4", "0", "0"), Hex("f", "f", "b", "b", "0", "0"),
     Hex("8", "0", "8", "0", "8", "0")}

\* "#fff" and "#gg0000" do not match #RRGGBB.
MalformedStrings ==
    {<<"#", "f", "f", "f">>, Hex("g", "g", "0", "0", "0", "0")}

\* The longest list of colors drawn, apart from LongRamp.
MaxColors == 3

RECURSIVE ListsUpTo(_, _)
ListsUpTo(S, n) ==
    IF n = 0 THEN {<<>>}
    ELSE LET shorter == ListsUpTo(S, n - 1)
         IN  shorter \cup {Append(list, x) : list \in shorter, x \in S}

\* Ten grays, from #eeeeee down to #555555: a group with more members
\* than there are weights.
LongRamp ==
    [k \in 1..10 |->
        LET d == HexDigits[16 - k]
        IN  Hex(d, d, d, d, d, d)]

\* ------------------------------------------------------------------------
\* The functions of color-assets.ts on their own
\* ------------------------------------------------------------------------

\* What a call that was not made has returned.
NoBatch == [success |-> <<>>, failed |-> <<>>, attempted |-> <<>>]

\* What the host may do at each of n createColor calls.  The host's part
\* is drawn for the lists of up to MaxColors colors; for LongRamp every
\* call succeeds.
HostOutcomes(n) ==
    IF n > MaxColors THEN {[k \in 1..n |-> "ok"]}
    ELSE [1..n -> {"ok", "throws"}]

\* The colors a function is called with; called holds the function that
\* was called, outcomes what the host did during the call.
AssetsInit ==
    LET m == Collect(createInitialState([l |-> 500, c |-> 100, h |-> 0],
                                         InitialShades))
    IN  /\ pluginState = m.st
        /\ heap = m.hp
        /\ ui = updateUI(m.st)
        /\ savedPalette = <<>>
        /\ savedTwice = FALSE
        /\ restored = FALSE
        /\ used = 0
        /\ plugin = NULL
        /\ session = NULL
        /\ addButton = NULL
        /\ \E colors \in ListsUpTo(ValidColors \cup MalformedStrings, MaxColors)
                           \cup {LongRamp} :
              assets = [colors |-> colors, outcomes |-> <<>>,
                        called |-> {}, names |-> <<>>, batch |-> NoBatch]

\* generatePaletteColorNames(colors), for colors that are hex colors.
GenerateNames ==
    /\ assets.called = {}
    /\ \A k \in 1..Len(assets.colors) : assets.colors[k] \in ValidColors \cup
                                          {LongRamp[j] : j \in 1..10}
    /\ assets' = [assets EXCEPT
                     !.called = @ \cup {"generatePaletteColorNames"},
                     !.names = generatePaletteColorNames(assets.colors)]
    /\ UNCHANGED <<pluginState, heap, ui, savedPalette, savedTwice, restored,
                   used, plugin, session, addButton>>

\* batchCreateColorAssets(colors), groupName at its default, with a host
\* that does outcomes.
BatchCreate(outcomes) ==
    /\ assets.called = {}
    /\ assets' = [assets EXCEPT
                     !.called = @ \cup {"batchCreateColorAssets"},
                     !.outcomes = outcomes,
                     !.batch = batchCreateColorAssets(assets.colors,
                                  "new-palette", outcomes)]
    /\ UNCHANGED <<pluginState, heap, ui, savedPalette, savedTwice, restored,
                   used, plugin, session, addButton>>

AssetsNext ==
    \/ GenerateNames
    \/ \E outcomes \in HostOutcomes(Len(assets.colors)) : BatchCreate(outcomes)

AssetsSpec == AssetsInit /\ [][AssetsNext]_vars

\* ------------------------------------------------------------------------
\* plugin.ts: the selection, the messages of the UI, the debounce
\* ------------------------------------------------------------------------

\* The delay of the debounce, in milliseconds.
Delay == 100

\* The step of the clock.
Quantum == Delay \div 2

\* getBaseColorFromSelection's null: no string.
NoColor == <<>>

\* A shape of the document: fills is its array of fills, each with a
\* fillColor.  Shapes whose color is under another property are not drawn.
Shape(color) ==
    [fills |-> IF color = NoColor THEN <<>> ELSE <<[fillColor |-> color]>>]

\* The first fill that has a fillColor.
FillAt(fills, found) ==
    IF found = {} THEN NoColor ELSE fills[Least(found, 0)].fillColor

FirstFillColor(fills) ==
    FillAt(fills, {i \in 1..Len(fills) : Len(fills[i].fillColor) > 0})

\* The first fill of the first selected shape that has a fillColor.
getBaseColorFromSelection(selection) ==
    IF Len(selection) = 0 THEN NoColor
    ELSE FirstFillColor(selection[1].fills)

\* penpot.ui.sendMessage(message); sent counts the messages by type.
Send(p, message) ==
    [p EXCEPT !.lastMessage = message, !.sent[message.type] = @ + 1]

\* The state of the plugin when it is loaded.  selectionChangeTimer is 0
\* for null: the code tests it for truth, and the ids of the host's timers
\* are positive.  timers is the host's set of pending timeouts.  events,
\* lastEvent, bursts, debounced, requests and escaped are history: the
\* selectionchange events so far, the time of the last one, the events
\* that came Delay or more after the one before, the messages the timer
\* callback has sent, the add-palette messages with colors so far, and
\* whether an exception has left the message handler.
PluginStart ==
    [now |-> 0,
     selection |-> <<>>,
     selectionChangeTimer |-> 0,
     timers |-> {},
     timeouts |-> 0,
     canvas |-> 0,
     library |-> 0,
     lastMessage |-> [type |-> "none"],
     sent |-> [type \in {"base-color", "palette-added"} |-> 0],
     events |-> 0,
     lastEvent |-> 0 - Delay,
     bursts |-> 0,
     debounced |-> 0,
     messages |-> 0,
     requests |-> 0,
     escaped |-> FALSE]

\* Variant: the pending timer is left to run when a new one is set.
SelectionChangeHandler_KeepsPending(p) ==
    [p EXCEPT !.timers = @ \cup {[id |-> p.timeouts + 1, due |-> p.now + Delay]},
              !.timeouts = @ + 1,
              !.selectionChangeTimer = p.timeouts + 1]

\* penpot.on('selectionchange'): clearTimeout of the pending timer, and a
\* new timeout of Delay.
SelectionChangeHandler(p) ==
    LET kept == IF p.selectionChangeTimer # 0
                THEN {t \in p.timers : t.id # p.selectionChangeTimer}
                ELSE p.timers
        id == p.timeouts + 1
    IN  [p EXCEPT !.timers = kept \cup {[id |-> id, due |-> p.now + Delay]},
                  !.timeouts = id,
                  !.selectionChangeTimer = id]

\* Variant: the callback sends nothing.
TimerCallback_Silent(p) == [p EXCEPT !.selectionChangeTimer = 0]

\* The timeout's callback: the selection is read when it runs.
TimerCallback(p) ==
    Send([p EXCEPT !.selectionChangeTimer = 0],
         [type |-> "base-color",
          color |-> getBaseColorFromSelection(p.selection)])

\* The calls of createRectangle before the call stop that returned a
\* shape.
CreatedBefore(rects, stop) ==
    LET Created(k) == rects[k] = "ok"
    IN  SelectSeq(Indices(stop - 1), Created)

\* The rectangles, filled with their colors.
ShapesOf(colors, created) ==
    [j \in 1..Len(created) |-> Shape(colors[created[j]])]

\* The rectangles are on the canvas; they are selected when the loop
\* ended and there is one at least.
PlaceRectangles(p, rectangles, threw) ==
    [p |-> [p EXCEPT !.canvas = @ + Len(rectangles),
                     !.selection = IF ~threw /\ Len(rectangles) > 0
                                   THEN rectangles ELSE @],
     threw |-> threw]

\* createPaletteRectangles(colors); rects[k] is what the host does at the
\* k-th penpot.createRectangle(): "ok", "null" (no shape is returned) or
\* "throws".  A throw leaves the function, and its caller, at once.
createPaletteRectangles(p, colors, rects) ==
    PlaceRectangles(p,
        ShapesOf(colors,
                 CreatedBefore(rects,
                    Least({k \in 1..Len(colors) : rects[k] = "throws"},
                          Len(colors) + 1))),
        \E k \in 1..Len(colors) : rects[k] = "throws")

\* The assets are in the library.
LibraryWith(p, created) ==
    [p |-> [p EXCEPT !.library = @ + Len(created)], assets |-> created]

\* addColorsToLibrary(colors, groupName); outcomes[k] is what the host does
\* at the k-th createColor(): "ok" or "throws".  Each throw is caught in
\* the loop.
addColorsToLibrary(p, colors, groupName, outcomes) ==
    LibraryWith(p, AssetsOf(colors, generatePaletteColorNames(colors),
                            groupName, Where(outcomes, Len(colors), "ok")))

\* penpot.ui.onMessage, case 'get-base-color'.
GetBaseColorHandler(p) ==
    Send(p, [type |-> "base-color",
             color |-> getBaseColorFromSelection(p.selection)])

\* The message after addColorsToLibrary returned.
AssetsReply(a) ==
    [p |-> Send(a.p, [type |-> "palette-added", success |-> TRUE,
                      assetsCreated |-> Len(a.assets)]),
     threw |-> FALSE]

\* The handler after createPaletteRectangles; r is what it left.  The try
\* block around addColorsToLibrary catches nothing here:
\* addColorsToLibrary catches the host's throws itself.
AfterRectangles(r, message, outcomes) ==
    IF r.threw THEN r
    ELSE IF message.createAssets
    THEN AssetsReply(addColorsToLibrary(r.p, message.colors, "new-palette",
                                        outcomes))
    ELSE [p |-> Send(r.p, [type |-> "palette-added", success |-> TRUE]),
          threw |-> FALSE]

\* penpot.ui.onMessage, case 'add-palette'.  message has the field colors
\* when the message carries colors (an empty array is true).  threw tells
\* that an exception left the handler.
AddPaletteHandler(p, message, rects, outcomes) ==
    IF "colors" \notin DOMAIN message
    THEN [p |-> p, threw |-> FALSE]
    ELSE AfterRectangles(createPaletteRectangles(p, message.colors, rects),
                         message, outcomes)

\* The selectionchange events, the messages of the UI and the clock's
\* last tick that are drawn.
MaxSelections == 3
MaxMessages == 1
MaxTime == 150

\* The fill colors of the shapes the user draws.
PluginColors ==
    {Hex("c", "c", "0", "0", "0", "0")}

\* What the user selects: nothing, a shape without fill, a shape with one.
Selections ==
    {<<>>} \cup {<<Shape(color)>> : color \in PluginColors \cup {NoColor}}

\* The add-palette messages: without colors, with an empty palette, with
\* one color and with two.
AddPaletteMessages ==
    {[type |-> "add-palette", createAssets |-> createAssets] :
        createAssets \in BOOLEAN}
    \cup {[type |-> "add-palette", colors |-> colors,
           createAssets |-> createAssets] :
             colors \in {<<>>, <<Hex("c", "c", "0", "0", "0", "0")>>,
                         <<Hex("c", "c", "0", "0", "0", "0"),
                           Hex("f", "f", "b", "b", "0", "0")>>},
             createAssets \in BOOLEAN}

ColorCount(message) ==
    IF "colors" \in DOMAIN message THEN Len(message.colors) ELSE 0

\* What penpot.library.local.createColor() does for each color; it is
\* called only when the message asks for assets.
LibraryOutcomes(message) ==
    IF message.createAssets
    THEN [1..ColorCount(message) -> {"ok", "throws"}]
    ELSE {[i \in 1..ColorCount(message) |-> "ok"]}

Unchanged_UI ==
    UNCHANGED <<pluginState, heap, ui, savedPalette, savedTwice, restored,
                used, assets, session, addButton>>

\* No timeout is due: a timeout's callback runs at its due time, before
\* the clock moves on and before a later event is handled.
NoneDue == \A t \in plugin.timers : t.due > plugin.now

\* The user changes the selection, or the host announces it again, and
\* the selectionchange handler runs.
SelectionChange(selection) ==
    /\ plugin.events < MaxSelections
    /\ plugin.now <= MaxTime
    /\ NoneDue
    /\ plugin' =
          [SelectionChangeHandler([plugin EXCEPT !.selection = selection])
             EXCEPT !.events = @ + 1,
                    !.lastEvent = plugin.now,
                    !.bursts = IF plugin.now - plugin.lastEvent >= Delay
                               THEN @ + 1 ELSE @]
    /\ Unchanged_UI

\* The user gives the first selected shape another fill; no event.
FillChange(color) ==
    /\ Len(plugin.selection) > 0
    /\ plugin.selection[1] # Shape(color)
    /\ plugin' = [plugin EXCEPT !.selection[1] = Shape(color)]
    /\ Unchanged_UI

\* Time passes, up to the next timeout that is due.
Tick ==
    /\ NoneDue
    /\ plugin.now < MaxTime \/ plugin.timers # {}
    /\ plugin' = [plugin EXCEPT !.now =
                     Min(plugin.now + Quantum,
                         Least({t.due : t \in plugin.timers},
                               plugin.now + Quantum))]
    /\ Unchanged_UI

\* The host runs the callback of a timeout that is due.
TimerFires(t) ==
    /\ t \in plugin.timers
    /\ t.due <= plugin.now
    /\ plugin' = [TimerCallback([plugin EXCEPT !.timers = @ \ {t}])
                    EXCEPT !.debounced = @ + 1]
    /\ Unchanged_UI

\* The UI posts get-base-color.
GetBaseColorMessage ==
    /\ plugin.messages < MaxMessages
    /\ plugin' = [GetBaseColorHandler(plugin) EXCEPT !.messages = @ + 1]
    /\ Unchanged_UI

\* The plugin after the handler of an add-palette message left r.
Handled(r, message) ==
    [r.p EXCEPT !.messages = @ + 1,
                !.requests = IF "colors" \in DOMAIN message THEN @ + 1 ELSE @,
                !.escaped = @ \/ r.threw]

\* The UI posts add-palette, and the host does rects and outcomes.
AddPaletteMessage(message, rects, outcomes) ==
    /\ plugin.messages < MaxMessages
    /\ plugin' = Handled(AddPaletteHandler(plugin, message, rects, outcomes),
                         message)
    /\ Unchanged_UI

PluginInit ==
    LET m == Collect(createInitialState([l |-> 500, c |-> 100, h |-> 0],
                                         InitialShades))
    IN  /\ pluginState = m.st
        /\ heap = m.hp
        /\ ui = updateUI(m.st)
        /\ savedPalette = <<>>
        /\ savedTwice = FALSE
        /\ restored = FALSE
        /\ used = 0
        /\ plugin = PluginStart
        /\ assets = NULL
        /\ session = NULL
        /\ addButton = NULL

TimerStep == \E t \in plugin.timers : TimerFires(t)

\* The UI posts one of the add-palette messages, and the host does one of
\* the things it can do for each color.
AddPaletteStep ==
    /\ plugin.messages < MaxMessages
    /\ \E message \in AddPaletteMessages :
          \E rects \in [1..ColorCount(message) -> {"ok", "null", "throws"}],
             outcomes \in LibraryOutcomes(message) :
                AddPaletteMessage(message, rects, outcomes)

PluginNext ==
    \/ \E selection \in Selections : SelectionChange(selection)
    \/ \E color \in PluginColors \cup {NoColor} : FillChange(color)
    \/ Tick
    \/ TimerStep
    \/ GetBaseColorMessage
    \/ AddPaletteStep

\* The host runs a due callback, and time passes.
PluginSpec ==
    PluginInit /\ [][PluginNext]_vars /\ WF_vars(TimerStep) /\ WF_vars(Tick)

\* ------------------------------------------------------------------------
\* The add button of the UI (src/unnamed/part_000): its label, the
\* create-assets flag, the palette-added messages and the restore timers
\* ------------------------------------------------------------------------

\* The delay of the restore timeouts, in milliseconds.
RestoreDelay == 2000

\* The clock of the UI moves in steps of half that delay.
ButtonQuantum == RestoreDelay \div 2

\* The label updateButtonText gives the button for a flag.
ButtonLabel(createAssets) ==
    IF createAssets THEN "Add to my file + Create assets"
    ELSE "Add to my file"

updateButtonText(b) ==
    [b EXCEPT !.textContent = ButtonLabel(b.createAssets)]

\* createAssetsCheckbox 'change'.
CheckboxHandler(b, checked) ==
    updateButtonText([b EXCEPT !.createAssets = checked])

\* const originalText = addBtn.textContent, and the setTimeout whose
\* callback writes it back.
SetRestore(b, kind) ==
    [b EXCEPT !.timeouts = @ + 1,
              !.timers = @ \cup {[id |-> b.timeouts + 1,
                                  due |-> b.now + RestoreDelay,
                                  originalText |-> b.textContent,
                                  kind |-> kind]}]

\* window 'message' of type palette-added.
PaletteAddedHandler(b, success) ==
    IF success
    THEN [SetRestore(b, "success") EXCEPT
             !.textContent = IF b.createAssets THEN "Assets Created!"
                             ELSE "Added to File!",
             !.disabled = TRUE]
    ELSE [SetRestore(b, "error") EXCEPT
             !.textContent = "Error!",
             !.backgroundColor = "#ff4444"]

\* The callback of a restore timeout.
RestoreCallback(b, t) ==
    IF t.kind = "success"
    THEN [b EXCEPT !.textContent = t.originalText, !.disabled = FALSE]
    ELSE [b EXCEPT !.textContent = t.originalText, !.backgroundColor = ""]

\* The button after init(): updateUI has called updateButtonText with
\* createAssets false; nothing is pending.
ButtonStart ==
    [textContent |-> ButtonLabel(FALSE), disabled |-> FALSE,
     backgroundColor |-> "", createAssets |-> FALSE,
     timers |-> {}, timeouts |-> 0, now |-> 0,
     replies |-> 0, changes |-> 0, updates |-> 0]

\* The palette-added messages, the checkbox changes and the other
\* renderings that are drawn, and the clock's last tick.
MaxReplies == 2
MaxChanges == 2
MaxUpdates == 1
MaxButtonTime == 2000

Unchanged_ButtonOnly ==
    UNCHANGED <<pluginState, heap, ui, savedPalette, savedTwice, restored,
                used, plugin, assets, session>>

\* The timeout the host runs next: timeouts run in the order of their due
\* times, and those due together in the order they were set.
NextRestore(b) ==
    CHOOSE t \in b.timers :
        \A u \in b.timers : t.due < u.due \/ (t.due = u.due /\ t.id <= u.id)

NoRestoreDue == \A t \in addButton.timers : t.due > addButton.now

\* A palette-added message arrives.
PaletteAdded(success) ==
    /\ addButton.replies < MaxReplies
    /\ NoRestoreDue
    /\ addButton' = [PaletteAddedHandler(addButton, success)
                       EXCEPT !.replies = @ + 1]
    /\ Unchanged_ButtonOnly

\* The user ticks or unticks the checkbox.
CheckboxChange ==
    /\ addButton.changes < MaxChanges
    /\ NoRestoreDue
    /\ addButton' = [CheckboxHandler(addButton, ~addButton.createAssets)
                       EXCEPT !.changes = @ + 1]
    /\ Unchanged_ButtonOnly

\* Another handler of the UI ends with updateUI, which calls
\* updateButtonText.
OtherUpdate ==
    /\ addButton.updates < MaxUpdates
    /\ NoRestoreDue
    /\ addButton' = [updateButtonText(addButton) EXCEPT !.updates = @ + 1]
    /\ Unchanged_ButtonOnly

\* The host runs the callback of the restore timeout that is due.
RestoreFires ==
    /\ addButton.timers # {}
    /\ NextRestore(addButton).due <= addButton.now
    /\ addButton' =
          RestoreCallback([addButton EXCEPT
                              !.timers = @ \ {NextRestore(addButton)}],
                          NextRestore(addButton))
    /\ Unchanged_ButtonOnly

\* Time passes, up to the next restore timeout.
ButtonTick ==
    /\ NoRestoreDue
    /\ addButton.now < MaxButtonTime \/ addButton.timers # {}
    /\ addButton' = [addButton EXCEPT !.now =
                        Min(addButton.now + ButtonQuantum,
                            Least({t.due : t \in addButton.timers},
                                  addButton.now + ButtonQuantum))]
    /\ Unchanged_ButtonOnly

ButtonInit ==
    LET m == Collect(createInitialState([l |-> 500, c |-> 100, h |-> 0],
                                         InitialShades))
    IN  /\ pluginState = m.st
        /\ heap = m.hp
        /\ ui = updateUI(m.st)
        /\ savedPalette = <<>>
        /\ savedTwice = FALSE
        /\ restored = FALSE
        /\ used = 0
        /\ plugin = NULL
        /\ assets = NULL
        /\ session = NULL
        /\ addButton = ButtonStart

ButtonNext ==
    \/ \E success \in BOOLEAN : PaletteAdded(success)
    \/ CheckboxChange
    \/ OtherUpdate
    \/ RestoreFires
    \/ ButtonTick

\* The host runs a due callback, and time passes.
ButtonSpec ==
    ButtonInit /\ [][ButtonNext]_vars
      /\ WF_vars(RestoreFires) /\ WF_vars(ButtonTick)

\* ------------------------------------------------------------------------
\* The UI and plugin.ts together: the messages between them, the initial
\* timeout, the Add button's click
\* ------------------------------------------------------------------------

\* The delay of the timeout plugin.ts sets when it is loaded.
InitialDelay == 200

\* The character of a hex digit's value.
DigitOf(v) == HexDigits[v + 1]

\* formatHex: "#" and two hex digits for each byte.
formatHex(bytes) ==
    Hex(DigitOf(bytes[1] \div 16), DigitOf(bytes[1] % 16),
        DigitOf(bytes[2] \div 16), DigitOf(bytes[2] % 16),
        DigitOf(bytes[3] \div 16), DigitOf(bytes[3] % 16))

\* hexToOklch of the string of a message: the three bytes are parsed, and
\* the coordinates are those oklchToHex rounds to these bytes.
parseHexToOklch(hex) ==
    [l |-> RDiv(ParseByte(hex, 1) * SCALE, 255),
     c |-> RDiv(ParseByte(hex, 3) * 400, 255),
     h |-> RDiv(ParseByte(hex, 5) * 360 * SCALE, 255)]

\* window 'message' of type base-color, the color a hex string or none.
BaseColorListener(m, color) ==
    IF color # NoColor
    THEN recalculatePalette(Rebuild(
            Config([m.st EXCEPT !.baseColor = parseHexToOklch(color),
                                !.isNodeSelected = TRUE], m.hp)))
    ELSE Config([m.st EXCEPT !.isNodeSelected = FALSE], m.hp)

\* addBtn 'click': the message posted to the plugin.
AddPaletteOf(shades, createAssets) ==
    [type |-> "add-palette",
     colors |-> [j \in 1..Len(shades) |-> formatHex(shades[j].hex)],
     createAssets |-> createAssets]

\* What the UI holds that publishing is to leave alone.
PaletteOf(st, hp) ==
    [baseColor |-> st.baseColor, shades |-> hp[st.paletteData],
     formulas |-> st.formulas]

\* The exchange when both sides are loaded: init() has posted
\* get-base-color, and the plugin's initial timeout is pending.  atClick
\* is history: what the UI held at the last click on Add.
SessionStart(st, hp) ==
    [outbox |-> <<[type |-> "get-base-color"]>>,
     inbox |-> <<>>,
     initialPending |-> TRUE,
     clicks |-> 0,
     published |-> 0,
     atClick |-> PaletteOf(st, hp)]

\* The user's selection changes, the clicks on Add and the clock's last
\* tick that are drawn.
MaxUserSelections == 2
MaxClicks == 1
MaxSessionTime == 200

\* The fill colors of the shapes the user selects.
SessionColors ==
    {Hex("3", "3", "6", "6", "c", "c"), Hex("c", "c", "3", "3", "3", "3")}

SessionSelections ==
    {<<>>} \cup {<<Shape(color)>> : color \in SessionColors}

\* Nothing is in flight and no timeout is pending.
SessionQuiet ==
    /\ session.outbox = <<>>
    /\ session.inbox = <<>>
    /\ ~session.initialPending
    /\ plugin.timers = {}

\* No timeout is due: a timeout's callback runs at its due time.
NoTimeoutDue ==
    /\ NoneDue
    /\ session.initialPending => plugin.now < InitialDelay

\* The inbox of the UI after a step of the plugin that took it from p to
\* q: a handler sends one message at most.
InboxAfter(inbox, p, q) ==
    IF q.sent # p.sent THEN Append(inbox, q.lastMessage) ELSE inbox

\* A step of the plugin side: the plugin is left as q, the exchange as s
\* with what q sent.
PluginSide(q, s) ==
    /\ plugin' = q
    /\ session' = [s EXCEPT !.inbox = InboxAfter(s.inbox, plugin, q)]
    /\ UNCHANGED <<pluginState, heap, ui, savedPalette, savedTwice, restored,
                   used, assets, addButton>>

\* Before Add is clicked the user selects something else; the host raises
\* selectionchange.
UserSelects(selection) ==
    /\ session.clicks = 0
    /\ plugin.events < MaxUserSelections
    /\ plugin.now <= MaxSessionTime
    /\ NoTimeoutDue
    /\ plugin.selection # selection
    /\ PluginSide([SelectionChangeHandler(
                      [plugin EXCEPT !.selection = selection])
                     EXCEPT !.events = @ + 1],
                  session)

\* The debounce timeout is due, and its callback runs.
DebounceFires ==
    \E t \in plugin.timers :
        /\ t.due <= plugin.now
        /\ PluginSide(TimerCallback([plugin EXCEPT !.timers = @ \ {t}]),
                      session)

\* The initial timeout's callback runs.
InitialTimeout ==
    /\ session.initialPending
    /\ plugin.now >= InitialDelay
    /\ PluginSide(GetBaseColorHandler(plugin),
                  [session EXCEPT !.initialPending = FALSE])

\* The plugin receives get-base-color.
ReceiveGetBaseColor ==
    /\ session.outbox # <<>>
    /\ Head(session.outbox).type = "get-base-color"
    /\ PluginSide(GetBaseColorHandler(plugin),
                  [session EXCEPT !.outbox = Tail(@)])

\* After createPaletteRectangles has assigned penpot.selection the host
\* raises selectionchange, or it does not.
AfterAssignment(r, raises) ==
    IF raises /\ ~r.threw THEN SelectionChangeHandler(r.p) ELSE r.p

\* The plugin receives add-palette; the host returns a shape at every
\* createRectangle.
ReceiveAddPalette(raises) ==
    /\ session.outbox # <<>>
    /\ Head(session.outbox).type = "add-palette"
    /\ NoTimeoutDue
    /\ PluginSide(AfterAssignment(
                     AddPaletteHandler(plugin, Head(session.outbox),
                        [k \in 1..Len(Head(session.outbox).colors) |-> "ok"],
                        [k \in 1..Len(Head(session.outbox).colors) |-> "ok"]),
                     raises),
                  [session EXCEPT !.outbox = Tail(@),
                                  !.published = @ + 1])

\* The head of the inbox is taken; no step but Deliver does so.
HeadTaken ==
    /\ session.inbox # <<>>
    /\ session' = [session EXCEPT !.inbox = Tail(@)]

\* The UI receives the message at the head of its inbox.  palette-added
\* touches the add button alone.
Deliver ==
    /\ HeadTaken
    /\ IF Head(session.inbox).type = "base-color"
       THEN CommitUI(BaseColorListener(Now, Head(session.inbox).color),
                     Head(session.inbox).color # NoColor, FALSE, "other")
       ELSE UNCHANGED <<pluginState, heap, ui, savedPalette, savedTwice,
                        restored, used>>
    /\ UNCHANGED <<plugin, assets, addButton>>

\* The user clicks Add when the exchange before it has settled: the
\* palette's hex codes are posted.
AddClick ==
    /\ session.clicks < MaxClicks
    /\ SessionQuiet
    /\ session' = [session EXCEPT
                      !.outbox = Append(@,
                          AddPaletteOf(heap[pluginState.paletteData], FALSE)),
                      !.clicks = @ + 1,
                      !.atClick = PaletteOf(pluginState, heap)]
    /\ UNCHANGED <<pluginState, heap, ui, savedPalette, savedTwice, restored,
                   used, plugin, assets, addButton>>

\* Before Add is clicked the user clicks Linear, once.
CurveClick ==
    /\ session.clicks = 0
    /\ getActivePropertyFormula(pluginState).activeCurve = NULL
    /\ FunctionBtnClick("Linear")

\* Time passes, up to the next timeout.
SessionTick ==
    /\ NoTimeoutDue
    /\ \/ plugin.now < MaxSessionTime
       \/ plugin.timers # {}
       \/ session.initialPending
    /\ PluginSide([plugin EXCEPT !.now =
                      Min(plugin.now + Quantum,
                          Least({t.due : t \in plugin.timers},
                                plugin.now + Quantum))],
                  session)

SessionInit ==
    LET m == Collect(createInitialState([l |-> 500, c |-> 100, h |-> 0],
                                         InitialShades))
    IN  /\ pluginState = m.st
        /\ heap = m.hp
        /\ ui = updateUI(m.st)
        /\ savedPalette = <<>>
        /\ savedTwice = FALSE
        /\ restored = FALSE
        /\ used = 0
        /\ plugin = PluginStart
        /\ assets = NULL
        /\ session = SessionStart(m.st, m.hp)
        /\ addButton = NULL

SessionNext ==
    \/ \E selection \in SessionSelections : UserSelects(selection)
    \/ DebounceFires
    \/ InitialTimeout
    \/ ReceiveGetBaseColor
    \/ \E raises \in BOOLEAN : ReceiveAddPalette(raises)
    \/ Deliver
    \/ AddClick
    \/ CurveClick
    \/ SessionTick

\* The host runs the due callbacks and delivers the messages posted, and
\* time passes.  The fairness of Deliver is stated on what it does to the
\* exchange.
SessionSpec ==
    SessionInit /\ [][SessionNext]_vars
      /\ WF_vars(DebounceFires) /\ WF_vars(InitialTimeout)
      /\ WF_vars(ReceiveGetBaseColor)
      /\ WF_vars(\E raises \in BOOLEAN : ReceiveAddPalette(raises))
      /\ WF_session(HeadTaken) /\ WF_vars(SessionTick)

\* ------------------------------------------------------------------------
\* Vocabulary of the claims
\* ------------------------------------------------------------------------

\* The shades of the palette, and of the snapshot.
Shades == heap[pluginState.paletteData]
Original == heap[pluginState.originalPaletteData]

\* A shade's value for a property.
ChannelValue(color, property) ==
    CASE property = "Luminance" -> color.l
      [] property = "Chroma"    -> color.c
      [] property = "Hue"       -> color.h

\* The steps of each handler, with the inputs Next draws.
PickerStep == \E hex \in PickerColors : ColorPicker(hex)
ShadesStep == \E n \in ShadeCounts : ShadesSlider(n)
TabStep == \E index \in DOMAIN tabNames : TabClick(index)
CurveStep == \E btnText \in curveTypes : FunctionBtnClick(btnText)
ParamStep ==
    \/ \E index \in 0..3, rawValue \in ParamStops :
          ParamSliderInput(index, rawValue)
    \/ \E index \in 0..3, text \in ParamTexts : ParamValueInput(index, text)
ManualStep ==
    \/ \E i \in EditedShades, v \in SliderStops(ui.sliderMax) :
          VerticalSliderInput(i, v)
    \/ \E i \in EditedShades, text \in ValueTexts :
          ~text.isNaN /\ ValueInput(i, text)

\* ------------------------------------------------------------------------
\* C1
\* ------------------------------------------------------------------------

\* A step changes the number of shades, a shade's id, or a shade's value
\* for a property that is not the active one and has no active formula.
ChangesAnotherChannel ==
    \/ Len(Shades') # Len(Shades)
    \/ \E j \in DOMAIN Shades :
          \/ Shades'[j].id # Shades[j].id
          \/ \E Y \in Properties \ {pluginState.activeProperty} :
                /\ pluginState.formulas[Y].activeCurve = NULL
                /\ ChannelValue(Shades'[j], Y) # ChannelValue(Shades[j], Y)

\* C1: channel independence.  No curve click (activation or toggle off)
\* and no parameter edit on the active property changes, for either of the
\* two other properties when it has no active formula, any shade's value;
\* nor does it change the shades' number or ids.
C1_ChannelIndependence ==
    [][~(ChangesAnotherChannel /\ (CurveStep \/ ParamStep))]_vars

\* A Hue formula was activated on a palette whose chroma had been edited by
\* hand: the snapshot taken at the activation holds the edited chroma, the
\* palette still holds it, and the hue is the formula's.
C1_Witness ==
    /\ pluginState.formulas["Hue"].activeCurve # NULL
    /\ pluginState.formulas["Chroma"].activeCurve = NULL
    /\ pluginState.originalPaletteData # NULL
    /\ \E j \in DOMAIN Shades :
          /\ savedPalette[j].c # pluginState.baseColor.c
          /\ Shades[j].c = savedPalette[j].c
          /\ Shades[j].h # savedPalette[j].h

\* ------------------------------------------------------------------------
\* C2
\* ------------------------------------------------------------------------

\* C2: a manual edit (vertical slider, or numeric input with a number)
\* leaves the active property without a curve and the two other
\* properties' activeCurve and curveParams as they were.
C2_ManualEditDisablesOnlyActive ==
    [][ManualStep =>
         /\ pluginState'.activeProperty = pluginState.activeProperty
         /\ pluginState'.formulas[pluginState.activeProperty].activeCurve = NULL
         /\ \A Y \in Properties \ {pluginState.activeProperty} :
               /\ pluginState'.formulas[Y].activeCurve
                     = pluginState.formulas[Y].activeCurve
               /\ pluginState'.formulas[Y].curveParams
                     = pluginState.formulas[Y].curveParams
      ]_vars

\* A manual edit has switched off the curve of the active property (its
\* parameter controls are still on screen) while another property keeps
\* its curve and parameters.
C2_Witness ==
    /\ ui.paramsShown
    /\ getActivePropertyFormula(pluginState).activeCurve = NULL
    /\ \E Y \in Properties \ {pluginState.activeProperty} :
          /\ pluginState.formulas[Y].activeCurve # NULL
          /\ pluginState.formulas[Y].curveParams
                = getDefaultParameters(pluginState.formulas[Y].activeCurve)

\* ------------------------------------------------------------------------
\* C3
\* ------------------------------------------------------------------------

\* C3: hex consistency.  After every handler, every shade's hex is
\* oklchToHex of its l, c and h.
C3_HexConsistent ==
    \A j \in DOMAIN Shades :
        Shades[j].hex = oklchToHex(Shades[j].l, Shades[j].c, Shades[j].h)

\* The reset has just restored a palette that holds a value set by hand (a
\* lightness off the default ramp), with no formula active.
C3_Witness ==
    /\ restored
    /\ ~hasAnyActiveFormula(pluginState)
    /\ \E j \in DOMAIN Shades :
          /\ Shades[j].l # RDiv(SCALE * (j - 1), pluginState.amountOfShades - 1)
          /\ Shades[j].hex # oklchToHex(RDiv(SCALE * (j - 1),
                                             pluginState.amountOfShades - 1),
                                        Shades[j].c, Shades[j].h)

\* ------------------------------------------------------------------------
\* C4
\* ------------------------------------------------------------------------

\* C4: after any sequence of operations the palette has amountOfShades
\* shades, and so has the snapshot while there is one: the reset never
\* restores a palette of another length.
C4_LengthIsAmountOfShades ==
    /\ Len(Shades) = pluginState.amountOfShades
    /\ pluginState.originalPaletteData # NULL =>
          Len(Original) = pluginState.amountOfShades

\* The reset has just restored a snapshot, in a run that had changed the
\* shade count before the save.
C4_Witness ==
    /\ restored
    /\ pluginState.amountOfShades # InitialShades
    /\ Len(Shades) = pluginState.amountOfShades

\* ------------------------------------------------------------------------
\* C5
\* ------------------------------------------------------------------------

\* C5: snapshot round trip.  In any state with a snapshot, whatever curve
\* activations, parameter edits, manual edits and tab clicks came since
\* the save, the reset leaves the palette equal, shade by shade, to the
\* palette as it was when the snapshot was saved, every property without a
\* curve, and no snapshot; and so is the state the reset button has left.
C5_SnapshotRoundTrip ==
    /\ pluginState.originalPaletteData # NULL =>
          LET r == ResetHandler(Now)
          IN  /\ r.hp[r.st.paletteData] = savedPalette
              /\ \A p \in Properties : r.st.formulas[p].activeCurve = NULL
              /\ r.st.originalPaletteData = NULL
    /\ restored =>
          /\ \A p \in Properties : pluginState.formulas[p].activeCurve = NULL
          /\ pluginState.originalPaletteData = NULL

\* The reset has just undone counted edits made after the save: the
\* palette is off the one a rebuild gives, so it was edited by hand before
\* the save, and restored after.
C5_Witness ==
    /\ restored
    /\ used > 1
    /\ pluginState.originalPaletteData = NULL
    /\ Shades # initializePaletteData(pluginState.baseColor,
                                      pluginState.amountOfShades)

\* ------------------------------------------------------------------------
\* C6
\* ------------------------------------------------------------------------

\* C6: whenever a step changes the base color (color picker or host
\* base-color message with a color) or the shade count, afterwards every
\* property has activeCurve null and originalPaletteData is null.
\* The base-color message with a color breaks it: its handler rebuilds the
\* palette and keeps formulas and originalPaletteData.
C6_StructuralChangeInvalidates ==
    [][(\/ pluginState'.baseColor # pluginState.baseColor
        \/ pluginState'.amountOfShades # pluginState.amountOfShades) =>
         /\ \A p \in Properties : pluginState'.formulas[p].activeCurve = NULL
         /\ pluginState'.originalPaletteData = NULL
      ]_vars

\* ------------------------------------------------------------------------
\* C7
\* ------------------------------------------------------------------------

\* C7: a step that takes originalPaletteData from non-null to null is a
\* reset, a color-picker input or a shade-count input, and is no tab
\* click, curve click (activation or toggle off), parameter edit or manual
\* edit: these keep a non-null originalPaletteData non-null.
C7_SnapshotClearedOnlyBy ==
    [][(pluginState.originalPaletteData # NULL
          /\ pluginState'.originalPaletteData = NULL)
       => /\ ResetClick \/ PickerStep \/ ShadesStep
          /\ ~(TabStep \/ CurveStep \/ ParamStep \/ ManualStep)
      ]_vars

\* A snapshot is held while no property has a curve: the last curve was
\* toggled off or switched off by a manual edit.
C7_Witness ==
    /\ pluginState.originalPaletteData # NULL
    /\ ~hasAnyActiveFormula(pluginState)
    /\ Shades # Original

\* ------------------------------------------------------------------------
\* C8
\* ------------------------------------------------------------------------

\* C8: lazy capture.  originalPaletteData is null initially; a step makes
\* it non-null only if it is a curve click activating a curve while no
\* property has one, and the snapshot is then the palette as it was just
\* before the step; a step from non-null to non-null keeps the snapshot's
\* contents, so later activations from "none active" do not replace it.
C8_LazyCapture ==
    /\ pluginState.originalPaletteData = NULL
    /\ [][/\ (pluginState.originalPaletteData = NULL
                /\ pluginState'.originalPaletteData # NULL)
             => /\ CurveStep
                /\ ~hasAnyActiveFormula(pluginState)
                /\ hasAnyActiveFormula(pluginState')
                /\ Original' = Shades
          /\ (pluginState.originalPaletteData # NULL
                /\ pluginState'.originalPaletteData # NULL)
             => Original' = Original
         ]_vars

\* A second activation from "none active" has run with the snapshot held:
\* the lightness edited by hand before it is in the palette, and the
\* snapshot still holds the lightness of the first activation's palette.
C8_Witness ==
    /\ savedTwice
    /\ hasAnyActiveFormula(pluginState)
    /\ pluginState.formulas["Luminance"].activeCurve = NULL
    /\ Original = savedPalette
    /\ \E j \in DOMAIN Shades : Shades[j].l # Original[j].l

\* ------------------------------------------------------------------------
\* C9
\* ------------------------------------------------------------------------

\* C9: saveOriginalPaletteState is idempotent.  Called on a state with a
\* snapshot it returns the state, snapshot contents included, whatever the
\* palette is by now; called twice from a state without one, with an edit
\* of the palette in between, it leaves the snapshot the first call made.
C9_SaveIdempotent ==
    IF pluginState.originalPaletteData # NULL
    THEN LET s == saveOriginalPaletteState(Now)
         IN  /\ s.st.originalPaletteData # NULL
             /\ s.hp[s.st.originalPaletteData] = Original
             /\ s.hp[s.st.paletteData] = Shades
             /\ s.st.formulas = pluginState.formulas
    ELSE LET s1 == saveOriginalPaletteState(Now)
         IN  /\ s1.st.originalPaletteData # NULL
             /\ s1.hp[s1.st.originalPaletteData] = Shades
             /\ \A i \in 0..(pluginState.amountOfShades - 1), v \in {0, 300} :
                   LET e  == ValueInputHandler(s1, i, v)
                       s2 == saveOriginalPaletteState(e)
                   IN  s2.hp[s2.st.originalPaletteData] = Shades

\* saveOriginalPaletteState has been called a second time, by a curve
\* click, on a palette that differs from the snapshot.
C9_Witness ==
    /\ savedTwice
    /\ pluginState.originalPaletteData # NULL
    /\ Original = savedPalette
    /\ \E j \in DOMAIN Shades : Shades[j].hex # Original[j].hex

\* ------------------------------------------------------------------------
\* C10
\* ------------------------------------------------------------------------

\* C10: the snapshot is independent of later mutation.  While
\* originalPaletteData is non-null it is an array of its own, holding the
\* shades as they were at the save, whatever was written into paletteData
\* since; and an edit of paletteData after a reset leaves the array the
\* snapshot was in as it was.
C10_SnapshotIndependent ==
    pluginState.originalPaletteData # NULL =>
        /\ pluginState.originalPaletteData # pluginState.paletteData
        /\ Original = savedPalette
        /\ LET r == resetPaletteToOriginal(Now)
           IN  /\ r.st.paletteData # pluginState.originalPaletteData
               /\ \A i \in 0..(pluginState.amountOfShades - 1),
                     v \in {0, maxRange(pluginState.activeProperty)} :
                     LET e == VerticalSliderHandler(r, i, v)
                     IN  e.hp[pluginState.originalPaletteData] = Original

\* With a snapshot held, lightness and chroma of a shade have both been
\* written in place since the save.
C10_Witness ==
    /\ pluginState.originalPaletteData # NULL
    /\ \E j \in DOMAIN Shades :
          /\ Shades[j].l # Original[j].l
          /\ Shades[j].c # Original[j].c

\* ------------------------------------------------------------------------
\* C11
\* ------------------------------------------------------------------------

\* C11: reset without a snapshot is a no-op.  In any state whose
\* originalPaletteData is null, resetPaletteToOriginal leaves the shades,
\* the formulas, activeProperty, baseColor and amountOfShades as they are.
C11_ResetWithoutSnapshot ==
    pluginState.originalPaletteData = NULL =>
        \A r \in {resetPaletteToOriginal(Now)} :
            /\ r.hp[r.st.paletteData] = Shades
            /\ r.st.formulas = pluginState.formulas
            /\ r.st.activeProperty = pluginState.activeProperty
            /\ r.st.baseColor = pluginState.baseColor
            /\ r.st.amountOfShades = pluginState.amountOfShades
            /\ r.st.originalPaletteData = NULL

\* No snapshot is held, and the palette is not the default one: it holds
\* values set by hand, which a rebuild would lose.
C11_Witness ==
    /\ pluginState.originalPaletteData = NULL
    /\ ~restored
    /\ used > 0
    /\ Shades # initializePaletteData(pluginState.baseColor,
                                      pluginState.amountOfShades)

\* ------------------------------------------------------------------------
\* C13
\* ------------------------------------------------------------------------

\* The click on the curve button that is active for the active property
\* (a step that is not counted).
ToggleOffStep ==
    /\ getActivePropertyFormula(pluginState).activeCurve # NULL
    /\ used' = used
    /\ FunctionBtnClick(getActivePropertyFormula(pluginState).activeCurve)

\* C13: toggling off freezes the values.  The click on the active curve's
\* button leaves the active property without a curve, and every shade's
\* value for that property as it was, which is as the formula computed it.
C13_ToggleOffFreezes ==
    [][ToggleOffStep =>
         LET ap == pluginState.activeProperty
         IN  /\ pluginState'.activeProperty = ap
             /\ pluginState'.formulas[ap].activeCurve = NULL
             /\ Len(Shades') = Len(Shades)
             /\ \A j \in DOMAIN Shades :
                   /\ ChannelValue(Shades'[j], ap) = ChannelValue(Shades[j], ap)
                   /\ ChannelValue(Shades'[j], ap)
                        = FormulaValue(ap, pluginState.formulas[ap],
                                       pluginState.amountOfShades, j - 1)
      ]_vars

\* The chroma curve, the one counted event of the run, has been toggled
\* off: no formula is active, the base color is the snapshot's, and the
\* first shade, which no manual edit touches, keeps the chroma the formula
\* gave it.
C13_Witness ==
    /\ used = 1
    /\ ~hasAnyActiveFormula(pluginState)
    /\ pluginState.originalPaletteData # NULL
    /\ Original[1].c = pluginState.baseColor.c
    /\ Shades[1].c # Original[1].c

\* ------------------------------------------------------------------------
\* C14
\* ------------------------------------------------------------------------

\* C14: after any sequence of operations every shade has l in [0, 1], c in
\* [0, 0.4] and h in [0, 360).
\* The manual edits break it: the numeric input stores the number typed as
\* it is (l = 5), and the Hue slider at its maximum stores h = 360.
C14_ShadeValuesInRange ==
    \A j \in DOMAIN Shades :
        /\ Shades[j].l >= 0 /\ Shades[j].l <= SCALE
        /\ Shades[j].c >= 0 /\ Shades[j].c <= 400
        /\ Shades[j].h >= 0 /\ Shades[j].h < 360 * SCALE

\* ------------------------------------------------------------------------
\* C19
\* ------------------------------------------------------------------------

\* C19: a tab click changes activeProperty only: the shades, every
\* property's activeCurve, curveParams and formulaRange, the snapshot and
\* the other fields of the state stay as they are.
C19_TabSwitchOnlyReassigns ==
    [][(used' = used /\ TabStep) =>
         /\ pluginState'.activeProperty \in Properties
         /\ [pluginState' EXCEPT !.activeProperty = pluginState.activeProperty]
               = pluginState
         /\ Shades' = Shades
         /\ pluginState.originalPaletteData # NULL => Original' = Original
      ]_vars

\* A tab click has left the property whose curve the run's opening click
\* activated: the curve, its parameters and the snapshot are still there.
C19_Witness ==
    /\ used = 0
    /\ pluginState.activeProperty # "Luminance"
    /\ pluginState.formulas["Luminance"].activeCurve = "Linear"
    /\ pluginState.formulas["Luminance"].curveParams
          = getDefaultParameters("Linear")
    /\ pluginState.originalPaletteData # NULL
    /\ Original = savedPalette

\* ------------------------------------------------------------------------
\* C20
\* ------------------------------------------------------------------------

\* C20: in every reachable state a property whose activeCurve is null has
\* empty curveParams.
\* The parameter numeric input breaks it: a manual edit switches the curve
\* off without rendering the parameter controls anew, and their listeners
\* then write curveParams for a property without a curve.
C20_NoCurveNoParams ==
    \A p \in Properties :
        pluginState.formulas[p].activeCurve = NULL =>
            pluginState.formulas[p].curveParams = EmptyParams

\* ------------------------------------------------------------------------
\* C12
\* ------------------------------------------------------------------------

\* C12: recompute is idempotent.  Every state recalculatePalette has
\* returned is one it leaves as it is, in every shade's l, c, h and hex
\* and in every formula: recalculatePalette(recalculatePalette(s)) equals
\* recalculatePalette(s).
C12_RecalculateIdempotent ==
    \A r \in {recalculatePalette(Now)} :
        /\ r.hp[r.st.paletteData] = Shades
        /\ r.st.formulas = pluginState.formulas
        /\ r.st = pluginState

\* recalculatePalette has returned a palette of five shades with a formula
\* on every property, the hue's running over the shades.
C12_Witness ==
    /\ pluginState.amountOfShades = 5
    /\ \A p \in Properties : pluginState.formulas[p].activeCurve # NULL
    /\ Shades[1].h # Shades[5].h
    /\ Shades[1].l # Shades[5].l

\* ------------------------------------------------------------------------
\* C15
\* ------------------------------------------------------------------------

\* C15: curve evaluation is clamped.  With two shades or more, for every
\* curve and parameter map a property has, every value of
\* generateCurveValues is a number in [0, 1].
C15_CurveValuesClamped ==
    pluginState.amountOfShades >= MinShades =>
        \A p \in Properties :
            pluginState.formulas[p].activeCurve # NULL =>
                \A values \in {generateCurveValues(pluginState.amountOfShades,
                                   pluginState.formulas[p].activeCurve,
                                   pluginState.formulas[p].curveParams)} :
                    /\ Len(values) = pluginState.amountOfShades
                    /\ \A j \in DOMAIN values :
                          /\ values[j] # NaN
                          /\ values[j] >= 0
                          /\ values[j] <= SCALE

\* A Linear curve with slope 2 and intercept -0.5 over five shades: its
\* first value is clamped from below, its last from above.
C15_Witness ==
    /\ pluginState.amountOfShades = 5
    /\ \E p \in Properties :
          /\ pluginState.formulas[p].activeCurve = "Linear"
          /\ pluginState.formulas[p].curveParams = [m |-> 2 * SCALE, c |-> 0 - 500]
          /\ generateCurveValues(5, "Linear",
                                 pluginState.formulas[p].curveParams)
                = << 0, 0, 500, SCALE, SCALE >>

\* ------------------------------------------------------------------------
\* C16
\* ------------------------------------------------------------------------

\* C16: with one shade, the palette has exactly one shade, none of its l,
\* c, h, hex is NaN, and its value for every property with a curve is the
\* curve at x = 0 (the first shade's value in a palette of two).
\* The code breaks it: x = i / (steps - 1) is 0 / 0 for the one shade, in
\* initializePaletteData and in generateCurveValues.
C16_SingleShade ==
    pluginState.amountOfShades = 1 =>
        /\ Len(Shades) = 1
        /\ Shades[1].l # NaN /\ Shades[1].c # NaN /\ Shades[1].h # NaN
        /\ Shades[1].hex # << NaN, NaN, NaN >>
        /\ \A p \in Properties :
              pluginState.formulas[p].activeCurve # NULL =>
                 ChannelValue(Shades[1], p)
                    = FormulaValue(p, pluginState.formulas[p], MinShades, 0)

\* ------------------------------------------------------------------------
\* C17
\* ------------------------------------------------------------------------

\* C17: the Linear example.  With five shades and Linear with its defaults
\* on Luminance, the shades' l are 0, 0.235, 0.47, 0.705, 0.94; c and h of
\* every shade are the base color's while Chroma and Hue have no curve.
C17_LinearExample ==
    (/\ pluginState.amountOfShades = 5
     /\ pluginState.formulas["Luminance"].activeCurve = "Linear"
     /\ pluginState.formulas["Luminance"].curveParams
           = getDefaultParameters("Linear"))
    => /\ [j \in 1..5 |-> Shades[j].l] = << 0, 235, 470, 705, 940 >>
       /\ pluginState.formulas["Chroma"].activeCurve = NULL =>
             \A j \in 1..5 : Shades[j].c = pluginState.baseColor.c
       /\ pluginState.formulas["Hue"].activeCurve = NULL =>
             \A j \in 1..5 : Shades[j].h = pluginState.baseColor.h

\* Five shades, Linear with its defaults on Luminance, no other curve.
C17_Witness ==
    /\ pluginState.amountOfShades = 5
    /\ pluginState.formulas["Luminance"].activeCurve = "Linear"
    /\ pluginState.formulas["Luminance"].curveParams # EmptyParams
    /\ pluginState.formulas["Chroma"].activeCurve = NULL
    /\ pluginState.formulas["Hue"].activeCurve = NULL
    /\ Shades[5].l = 940
    /\ Shades[5].c = 100

\* ------------------------------------------------------------------------
\* C18
\* ------------------------------------------------------------------------

\* The defaults the documentation of the curves gives.
DocumentedDefaults(curveType) ==
    CASE curveType = "Linear" -> [m |-> 940, c |-> 0]
      [] curveType = "Normal" -> [a |-> 180, k |-> 600, d |-> 0, c |-> 180]
      [] curveType = "Quad"   -> [a |-> 70, k |-> 380, d |-> 1400, c |-> 70]
      [] curveType = "Arctan" -> [b |-> 160, k |-> 400, d |-> 1680, c |-> 180]
      [] curveType = "Sine"   -> [a |-> 180, k |-> 600, d |-> 0, c |-> 180]
      [] curveType = "Expo"   -> [a |-> 180, k |-> 350, d |-> 2500, c |-> 0]

\* C18: defaults for absent parameters.  For a property whose curve has an
\* empty parameter map, generateCurveValues gives what it gives for the
\* curve's documented defaults, which are those of getDefaultParameters,
\* and the shades hold the values of the formula with these defaults.
C18_AbsentParametersDefault ==
    \A p \in Properties :
        (/\ pluginState.formulas[p].activeCurve # NULL
         /\ pluginState.formulas[p].curveParams = EmptyParams)
        => \A curve \in {pluginState.formulas[p].activeCurve} :
              /\ getDefaultParameters(curve) = DocumentedDefaults(curve)
              /\ generateCurveValues(pluginState.amountOfShades, curve, EmptyParams)
                    = generateCurveValues(pluginState.amountOfShades, curve,
                                          DocumentedDefaults(curve))
              /\ \A j \in DOMAIN Shades :
                    ChannelValue(Shades[j], p)
                       = FormulaValue(p,
                            [pluginState.formulas[p] EXCEPT
                                !.curveParams = DocumentedDefaults(curve)],
                            pluginState.amountOfShades, j - 1)

\* Five shades with Arctan on Hue and no parameter given: the hue runs
\* over the shades by the defaults.
C18_Witness ==
    /\ pluginState.amountOfShades = 5
    /\ pluginState.formulas["Hue"].activeCurve = "Arctan"
    /\ pluginState.formulas["Hue"].curveParams = EmptyParams
    /\ Shades[1].h # Shades[5].h

\* ------------------------------------------------------------------------
\* C21
\* ------------------------------------------------------------------------

\* C21: in every reachable state the formula range of the lightness is
\* 0..1, of the chroma 0..0.4 and of the hue 0..360, whatever handlers
\* have run.
C21_FixedRanges ==
    /\ pluginState.formulas["Luminance"].formulaRange = [from |-> 0, to |-> SCALE]
    /\ pluginState.formulas["Chroma"].formulaRange = [from |-> 0, to |-> 400]
    /\ pluginState.formulas["Hue"].formulaRange = [from |-> 0, to |-> 360 * SCALE]

\* The picker has replaced the formulas, a curve was then switched on and
\* one of its parameters edited.
C21_Witness ==
    /\ pluginState.baseColor.l = 532
    /\ ~pluginState.isNodeSelected
    /\ \E p \in Properties :
          LET f == pluginState.formulas[p]
          IN  /\ f.activeCurve # NULL
              /\ f.curveParams # getDefaultParameters(f.activeCurve)

\* ------------------------------------------------------------------------
\* C22
\* ------------------------------------------------------------------------

\* C22: in every reachable state, a text that is no number, typed into
\* any shade's numeric input or into any shown parameter's numeric input,
\* leaves the state and the shade arrays as they are; the active
\* property's formula stays on.
C22_NonNumericIgnored ==
    /\ \A i \in 0..(ui.sliderCount - 1) :
          ValueInputListener(Now, i, NotANumber) = Now
    /\ ui.paramsShown =>
          \A index \in 0..3 :
             index + 1 \in DOMAIN getParameterLabels(ui.currentFormula.activeCurve)
             => ParamValueListener(Now, ui.currentFormula,
                    getParameterLabels(ui.currentFormula.activeCurve)[index + 1],
                    NotANumber) = Now

\* The active property has a formula and its parameter inputs are shown, so
\* that both kinds of input exist and there is a formula to switch off.
C22_Witness ==
    /\ ui.paramsShown
    /\ getActivePropertyFormula(pluginState).activeCurve # NULL
    /\ pluginState.originalPaletteData # NULL
    /\ used = MaxEvents

\* ------------------------------------------------------------------------
\* C26
\* ------------------------------------------------------------------------

\* C26: in every reachable state, a base-color message without a color
\* leaves baseColor, the shades, formulas, amountOfShades, activeProperty
\* and the snapshot as they are, and leaves isNodeSelected false.
C26_NullColorChangesNothing ==
    \A m \in {BaseColorHandler(Now, NULL)} :
       /\ m.st.baseColor = pluginState.baseColor
       /\ m.st.paletteData = pluginState.paletteData
       /\ m.hp[m.st.paletteData] = Shades
       /\ m.st.formulas = pluginState.formulas
       /\ m.st.amountOfShades = pluginState.amountOfShades
       /\ m.st.activeProperty = pluginState.activeProperty
       /\ m.st.originalPaletteData = pluginState.originalPaletteData
       /\ pluginState.originalPaletteData # NULL
             => m.hp[m.st.originalPaletteData] = Original
       /\ m.st.isNodeSelected = FALSE

\* A message with a color arrived while a snapshot and a formula existed,
\* and a message without a color followed: the node is no longer selected,
\* the base color is the message's and the snapshot is the older one.
C26_Witness ==
    /\ ~pluginState.isNodeSelected
    /\ pluginState.baseColor.l = 532
    /\ hasAnyActiveFormula(pluginState)
    /\ pluginState.originalPaletteData # NULL
    /\ Original[1].c # pluginState.baseColor.c

\* ------------------------------------------------------------------------
\* C28
\* ------------------------------------------------------------------------

\* C28: at the end of every handler, for each property with a curve and
\* every shade i, the stored value is from + t_i * (to - from), t_i the
\* clamped curve value at i / (amountOfShades - 1), clamped to 0..1 for the
\* lightness, to 0..0.4 for the chroma and taken modulo 360 for the hue.
C28_FormulaDrivenMatch ==
    \A p \in Properties :
       LET f == pluginState.formulas[p]
       IN  f.activeCurve # NULL =>
           \A i \in 0..(pluginState.amountOfShades - 1) :
              LET t == CurveValue(pluginState.amountOfShades, f.activeCurve,
                                  f.curveParams, i)
                  v == f.formulaRange.from
                         + FMul(f.formulaRange.to - f.formulaRange.from, t)
              IN  ChannelValue(Shades[i + 1], p) =
                     CASE p = "Luminance" -> Max(0, Min(SCALE, v))
                       [] p = "Chroma"    -> Max(0, Min(400, v))
                       [] p = "Hue"       -> v % (360 * SCALE)

\* The hue has a curve whose value at the last shade is 1, and the last
\* shade's hue is stored as 0.
C28_Witness ==
    /\ pluginState.formulas["Hue"].activeCurve # NULL
    /\ CurveValue(pluginState.amountOfShades,
                  pluginState.formulas["Hue"].activeCurve,
                  pluginState.formulas["Hue"].curveParams,
                  pluginState.amountOfShades - 1) = SCALE
    /\ Shades[pluginState.amountOfShades].h = 0
    /\ Shades[1].h # 0

\* ------------------------------------------------------------------------
\* C29
\* ------------------------------------------------------------------------

\* Shade i (0-based) is the only one a step changes, and of shade i only
\* the active property's value and the hex.
TouchesOnlyShade(i) ==
    /\ Len(Shades') = Len(Shades)
    /\ \A j \in 1..Len(Shades) : j # i + 1 => Shades'[j] = Shades[j]
    /\ Shades'[i + 1].id = Shades[i + 1].id
    /\ \A p \in Properties \ {pluginState.activeProperty} :
          ChannelValue(Shades'[i + 1], p) = ChannelValue(Shades[i + 1], p)

\* C29: a manual edit of shade i of the active property, by the vertical
\* slider or by a number typed, leaves every other shade's l, c, h and hex
\* and shade i's values of the two other properties as they were, also
\* when the active property had a formula before the edit.
C29_ManualEditOneShade ==
    [][\A i \in EditedShades :
          (\/ \E v \in SliderStops(ui.sliderMax) : VerticalSliderInput(i, v)
           \/ \E text \in ValueTexts : ~text.isNaN /\ ValueInput(i, text))
          => TouchesOnlyShade(i)]_vars

\* The chroma had a formula when its second shade was edited by hand: the
\* parameter controls are still on screen, the formula is off, the first
\* shade keeps the value the formula gave it and the second holds the
\* edit.
C29_Witness ==
    /\ pluginState.activeProperty = "Chroma"
    /\ ui.paramsShown
    /\ pluginState.formulas["Chroma"].activeCurve = NULL
    /\ Shades[1].c # pluginState.baseColor.c
    /\ Shades[2].c \in {400, 5 * SCALE}

\* ------------------------------------------------------------------------
\* C30
\* ------------------------------------------------------------------------

\* The shades are those of a fresh palette of n shades of the base color:
\* shade i has l = i / (n - 1), the base color's c and h, and id i.
FreshRamp(shades, baseColor, n) ==
    /\ Len(shades) = n
    /\ \A i \in 0..(n - 1) :
          /\ shades[i + 1].l = RDiv(SCALE * i, n - 1)
          /\ shades[i + 1].c = baseColor.c
          /\ shades[i + 1].h = baseColor.h
          /\ shades[i + 1].id = i

\* C30: in every reachable state, whatever edits and formulas it holds, a
\* color-picker change leaves a fresh ramp of the picked color, and a
\* shade-count change to n leaves a fresh ramp of n shades of the base
\* color.
C30_RebuildContent ==
    /\ \A hex \in PickerColors :
          \A m \in {ColorPickerHandler(Now, hex)} :
             FreshRamp(m.hp[m.st.paletteData], hexToOklch(hex),
                       pluginState.amountOfShades)
    /\ \A n \in ShadeCounts :
          \A m \in {ShadesSliderHandler(Now, n)} :
             FreshRamp(m.hp[m.st.paletteData], pluginState.baseColor, n)

\* The picker was the last of the counted events and not the first: the
\* palette is a fresh ramp of the picked color, without formulas or
\* snapshot.
C30_Witness ==
    /\ used = MaxEvents
    /\ pluginState.baseColor.l = 532
    /\ ~pluginState.isNodeSelected
    /\ ~hasAnyActiveFormula(pluginState)
    /\ pluginState.originalPaletteData = NULL
    /\ FreshRamp(Shades, pluginState.baseColor, pluginState.amountOfShades)

\* ------------------------------------------------------------------------
\* C25
\* ------------------------------------------------------------------------

\* The number of times x occurs in a list.
Count(list, x) == Cardinality({k \in 1..Len(list) : list[k] = x})

\* C25: after batchCreateColorAssets, whatever the input list and whatever
\* the host did, every occurrence of an input color is in exactly one of
\* success and failed; a string that is not #RRGGBB is in failed and
\* createColor was not called for it; createColor was called for every
\* occurrence of a valid color, whether or not earlier ones were malformed
\* or made the host throw.
C25_BatchPartitions ==
    "batchCreateColorAssets" \in assets.called =>
       LET colors == assets.colors
           success == [k \in 1..Len(assets.batch.success) |->
                          assets.batch.success[k].color]
           failed == assets.batch.failed
           attempted == assets.batch.attempted
       IN  /\ Len(success) + Len(failed) = Len(colors)
           /\ \A k \in 1..Len(success) : Count(colors, success[k]) > 0
           /\ \A k \in 1..Len(failed) : Count(colors, failed[k]) > 0
           /\ \A k \in 1..Len(colors) :
                 LET x == colors[k]
                 IN  /\ Count(success, x) + Count(failed, x) = Count(colors, x)
                     /\ x \in MalformedStrings =>
                           /\ Count(failed, x) = Count(colors, x)
                           /\ Count(attempted, x) = 0
                     /\ x \notin MalformedStrings =>
                           Count(attempted, x) = Count(colors, x)

\* A malformed string came first, the host threw for the first valid color,
\* and the valid color after it became an asset.
C25_Witness ==
    /\ "batchCreateColorAssets" \in assets.called
    /\ Len(assets.colors) = 3
    /\ assets.colors[1] \in MalformedStrings
    /\ assets.colors[2] \in ValidColors
    /\ assets.colors[3] \in ValidColors
    /\ assets.outcomes[1] = "throws"
    /\ assets.outcomes[2] = "ok"
    /\ Len(assets.batch.success) = 1
    /\ assets.batch.success[1].color = assets.colors[3]
    /\ assets.batch.failed = <<assets.colors[1], assets.colors[2]>>

\* ------------------------------------------------------------------------
\* C27
\* ------------------------------------------------------------------------

\* The place of colors[k] among the colors of members when they are put in
\* order of descending lightness, those of equal lightness in input order:
\* 1 for the lightest.
Place(colors, members, k) ==
    1 + Cardinality({j \in members :
                        \/ hexToHsl(colors[j]).l > hexToHsl(colors[k]).l
                        \/ /\ hexToHsl(colors[j]).l = hexToHsl(colors[k]).l
                           /\ j < k})

\* C27 as stated: generatePaletteColorNames returns one name per input
\* color, and among the colors that got the same base name the suffixes
\* are 100, 200, 300, ... in order of descending lightness, capped at 900;
\* the lightest of every group, a group of one included, gets 100.
C27_NamingWeights ==
    "generatePaletteColorNames" \in assets.called =>
       /\ Len(assets.names) = Len(assets.colors)
       /\ \A k \in 1..Len(assets.names) :
             LET members == {j \in 1..Len(assets.names) :
                                assets.names[j].base = assets.names[k].base}
             IN  assets.names[k].weight =
                    Min(900, 100 * Place(assets.colors, members, k))

\* C27, amended: generatePaletteColorNames returns one name per input
\* color, in input order.  When every color is within 20 degrees of hue of
\* the lightest color, or is unsaturated as the lightest is, every name has
\* the lightest color's base name and a color's suffix is 100 times its
\* place in the descending-lightness order of the whole palette, capped at
\* 900, equal strings sharing the suffix of their first occurrence.
\* Otherwise the colors are grouped by their own base name: a color alone
\* in its group gets 500, and in a larger group the suffixes are 100, 200,
\* 300, ... in order of descending lightness, capped at 900.
C27_NamingWeightsAmended ==
    "generatePaletteColorNames" \in assets.called =>
       LET colors == assets.colors
           names == assets.names
           all == 1..Len(colors)
           hsl(k) == hexToHsl(colors[k])
           own(k) == getBaseColorName(hsl(k).h, hsl(k).s)
           SimilarToLightest(k, first) ==
               \/ Min(Abs(hsl(k).h - hsl(first).h),
                      360 - Abs(hsl(k).h - hsl(first).h)) <= 20
               \/ 10 * hsl(k).s.num <= hsl(k).s.den
                  /\ 10 * hsl(first).s.num <= hsl(first).s.den
       IN  /\ Len(names) = Len(colors)
           /\ \A first \in all :
                 Place(colors, all, first) = 1 =>
                    IF \A k \in all : SimilarToLightest(k, first)
                    THEN \A k \in all :
                            \A k1 \in all :
                               (colors[k1] = colors[k]
                                /\ \A j \in all : colors[j] = colors[k] => k1 <= j)
                               => names[k] = [base |-> own(first),
                                              weight |->
                                                 Min(900, 100 * Place(colors, all, k1))]
                    ELSE \A k \in all :
                            LET members == {j \in all : own(j) = own(k)}
                            IN  names[k] =
                                   [base |-> own(k),
                                    weight |->
                                       IF members = {k} THEN 500
                                       ELSE Min(900, 100 * Place(colors, members, k))]

\* A palette of different hues: one color is alone in its group and got
\* 500, and two colors of another group got 100 and 200.
C27_Witness ==
    /\ "generatePaletteColorNames" \in assets.called
    /\ Len(assets.names) = 3
    /\ \E k, i, j \in 1..3 :
          /\ assets.names[k].weight = 500
          /\ assets.names[i].base = assets.names[j].base
          /\ assets.names[i].base # assets.names[k].base
          /\ assets.names[i].weight = 100
          /\ assets.names[j].weight = 200

\* ------------------------------------------------------------------------
\* C23
\* ------------------------------------------------------------------------

SelectionStep == \E selection \in Selections : SelectionChange(selection)

\* C23: at most one timeout is pending at any time; a selectionchange
\* event leaves none of the timeouts that were pending; the events that
\* follow one another by less than Delay count as one burst, and every
\* burst has produced one base-color message or has its timeout pending,
\* and does produce its message; the message is sent Delay or more after
\* the last event and carries the color the selection has when the
\* callback runs.
C23_Debounce ==
    /\ [](Cardinality(plugin.timers) <= 1)
    /\ [](plugin.debounced + Cardinality(plugin.timers) = plugin.bursts)
    /\ [][SelectionStep => plugin.timers \cap plugin'.timers = {}]_vars
    /\ [][TimerStep =>
            /\ plugin.now >= plugin.lastEvent + Delay
            /\ plugin'.debounced = plugin.debounced + 1
            /\ plugin'.lastMessage =
                  [type |-> "base-color",
                   color |-> getBaseColorFromSelection(plugin.selection)]]_vars
    /\ (plugin.timers # {}) ~> (plugin.debounced = plugin.bursts)

\* Every event drawn came less than Delay after the one before: one burst,
\* which has produced its one message, with the color of a shape.
C23_Witness ==
    /\ plugin.events = MaxSelections
    /\ plugin.bursts = 1
    /\ plugin.debounced = 1
    /\ plugin.timers = {}
    /\ plugin.sent["base-color"] = 1
    /\ plugin.lastMessage.type = "base-color"
    /\ plugin.lastMessage.color # NoColor

\* ------------------------------------------------------------------------
\* C24
\* ------------------------------------------------------------------------

\* C24: every add-palette message that carried colors has been answered by
\* exactly one palette-added message, whatever the host did, and no
\* exception has left the message handler.
C24_AlwaysAnswered ==
    /\ plugin.sent["palette-added"] = plugin.requests
    /\ ~plugin.escaped

\* ------------------------------------------------------------------------
\* C31
\* ------------------------------------------------------------------------

\* The state recalculatePalette is given when a curve is activated on the
\* property of tab index.
ActivationArgument(index, curveType) ==
    updateActivePropertyFormula(TabHandler(Now, index),
        [activeCurve |-> curveType,
         curveParams |-> getDefaultParameters(curveType)])

\* The shades reachable from a state's paletteData.
ShadesOfState(m) == m.hp[m.st.paletteData]

\* C31: recalculatePalette does not modify the state it is given: after
\* the call the shades reachable from the argument's paletteData hold the
\* l, c, h and hex they held before it.
C31_ArgumentUntouched ==
    \A index \in DOMAIN tabNames, curveType \in curveTypes :
        recalculatePalette(ActivationArgument(index, curveType))
              .hp[ActivationArgument(index, curveType).st.paletteData]
           = ShadesOfState(ActivationArgument(index, curveType))

\* ------------------------------------------------------------------------
\* C32
\* ------------------------------------------------------------------------

\* C32: in every reachable state, if any property has a curve then a
\* snapshot exists (originalPaletteData is not null), and the screen last
\* rendered shows the reset button.
C32_ResetAvailable ==
    hasAnyActiveFormula(pluginState) =>
        /\ pluginState.originalPaletteData # NULL
        /\ ui.resetShown

\* A manual edit has switched the active property's curve off, another
\* property still has its curve, and the snapshot is there.
C32_Witness ==
    /\ getActivePropertyFormula(pluginState).activeCurve = NULL
    /\ hasAnyActiveFormula(pluginState)
    /\ pluginState.originalPaletteData # NULL
    /\ ui.resetShown
    /\ used = MaxEvents

\* ------------------------------------------------------------------------
\* C33
\* ------------------------------------------------------------------------

\* The parameters the active property's formula holds.
ActiveParams(st) == getActivePropertyFormula(st).curveParams

\* The step is an edit of the parameter at index of the active property's
\* curve, the one whose controls are on screen, by its slider or by a
\* number typed into its input.
ParamEdit(index) ==
    /\ ParamSliderActs(pluginState, index)
    /\ ui.currentFormula.activeCurve
          = getActivePropertyFormula(pluginState).activeCurve
    /\ \/ \E rawValue \in ParamStops : ParamSliderInput(index, rawValue)
       \/ \E text \in ParamTexts :
             ~text.isNaN /\ ParamValueInput(index, text)

\* C33: an edit of one parameter of the active curve, by its slider or its
\* numeric input, leaves every other parameter with the value it had, the
\* one most recently set for it or its default: no edit reverts an earlier
\* edit of another parameter.
C33_OtherParametersKept ==
    [][\A index \in 0..3 :
          ParamEdit(index) =>
             \A q \in DOMAIN ActiveParams(pluginState) :
                q # getParameterLabels(
                       getActivePropertyFormula(pluginState).activeCurve)[index + 1]
                  => /\ q \in DOMAIN pluginState'.formulas[
                                        pluginState'.activeProperty].curveParams
                     /\ pluginState'.formulas[
                           pluginState'.activeProperty].curveParams[q]
                          = ActiveParams(pluginState)[q]
      ]_vars

\* ------------------------------------------------------------------------
\* C34
\* ------------------------------------------------------------------------

\* The parameter that multiplies the curve's shape.
Amplitude(curveType) ==
    CASE curveType = "Linear" -> "m"
      [] curveType = "Arctan" -> "b"
      [] OTHER                -> "a"

\* C34: a parameter present in curveParams is used with the value given,
\* 0 included: a curve whose amplitude (m of Linear, b of Arctan, a of the
\* others) is given as 0 has y = c, clamped to [0, 1], at every shade.
C34_GivenValuesUsed ==
    \A p \in Properties :
        LET f == pluginState.formulas[p]
        IN  (/\ f.activeCurve # NULL
             /\ pluginState.amountOfShades > 1
             /\ Amplitude(f.activeCurve) \in DOMAIN f.curveParams
             /\ "c" \in DOMAIN f.curveParams
             /\ f.curveParams[Amplitude(f.activeCurve)] = 0)
            => \A j \in 1..pluginState.amountOfShades :
                  generateCurveValues(pluginState.amountOfShades,
                                      f.activeCurve, f.curveParams)[j]
                     = Max(0, Min(SCALE, f.curveParams["c"]))

\* ------------------------------------------------------------------------
\* C35
\* ------------------------------------------------------------------------

\* The names in a list of labels.
LabelSet(labels) == {labels[k] : k \in DOMAIN labels}

\* C35: a click on the button of curve K, when K is not the active
\* property's curve, leaves that property with curve K and with
\* curveParams equal to getDefaultParameters(K), whose keys are
\* getParameterLabels(K), whatever the property held before; the other
\* properties' formulas stay as they were.
C35_ActivationSetsDefaults ==
    [][\A K \in curveTypes :
          (/\ getActivePropertyFormula(pluginState).activeCurve # K
           /\ FunctionBtnClick(K))
          => /\ pluginState'.activeProperty = pluginState.activeProperty
             /\ pluginState'.formulas[pluginState.activeProperty].activeCurve = K
             /\ pluginState'.formulas[pluginState.activeProperty].curveParams
                   = getDefaultParameters(K)
             /\ DOMAIN pluginState'.formulas[pluginState.activeProperty].curveParams
                   = LabelSet(getParameterLabels(K))
             /\ \A p \in Properties \ {pluginState.activeProperty} :
                   pluginState'.formulas[p] = pluginState.formulas[p]
      ]_vars

\* Quad is the lightness curve after the events of a run, which opened
\* with Linear: it has its own four parameters and none of Linear's.
C35_Witness ==
    /\ pluginState.activeProperty = "Luminance"
    /\ pluginState.formulas["Luminance"].activeCurve = "Quad"
    /\ pluginState.formulas["Luminance"].curveParams
          = getDefaultParameters("Quad")
    /\ "m" \notin DOMAIN pluginState.formulas["Luminance"].curveParams
    /\ used = MaxEvents

\* ------------------------------------------------------------------------
\* C38
\* ------------------------------------------------------------------------

\* C38: for every curve a property holds, with whatever parameter map, and
\* every x = i / (steps - 1) of the palette, calculateEasedFactor clamped to
\* [0, 1] is the value generateCurveValues computes for that curve, x and
\* parameters.
C38_EasedFactorAgrees ==
    \A p \in Properties :
        LET f == pluginState.formulas[p]
            steps == pluginState.amountOfShades
        IN  (f.activeCurve # NULL /\ steps > 1)
            => \A i \in 0..(steps - 1) :
                  Max(0, Min(SCALE, calculateEasedFactor(steps, i, f)))
                     = generateCurveValues(steps, f.activeCurve,
                                           f.curveParams)[i + 1]

\* ------------------------------------------------------------------------
\* C39
\* ------------------------------------------------------------------------

\* C39: once every restore timer has fired, the add button is enabled and
\* its label is the one updateButtonText gives for the current
\* create-assets flag.
C39_ButtonRestored ==
    addButton.timers = {} =>
        /\ ~addButton.disabled
        /\ addButton.textContent = ButtonLabel(addButton.createAssets)

\* C36: after a click on Add, once the plugin has handled add-palette,
\* every message that followed has been delivered and no timeout is
\* pending, the UI's baseColor, paletteData and formulas are what they were
\* at the click.
C36_PublishingKeepsPalette ==
    (session.published > 0 /\ SessionQuiet)
        => PaletteOf(pluginState, heap) = session.atClick

\* The fill color of the selection, read as the UI reads it.
SelectionColor == getBaseColorFromSelection(plugin.selection)

AgreesWithSelection ==
    (session.published = 0 /\ SelectionColor # NoColor)
        => pluginState.baseColor = parseHexToOklch(SelectionColor)

\* C37: whenever nothing is in flight and no timeout is pending, the UI's
\* baseColor is the color of the selection when it has one, and from some
\* point on it stays so: the message delivered last carries the color of
\* the final selection.  Selections the plugin makes itself are set aside.
C37_EventualAgreement ==
    /\ [](SessionQuiet => AgreesWithSelection)
    /\ <>[]AgreesWithSelection

\* The user has selected one filled shape and then another, the plugin has
\* answered the UI's request or run its initial timeout besides, and every
\* message has been delivered.
C37_Witness ==
    /\ SessionQuiet
    /\ session.published = 0
    /\ plugin.events = MaxUserSelections
    /\ plugin.sent["base-color"] > plugin.events
    /\ SelectionColor # NoColor
    /\ pluginState.baseColor = parseHexToOklch(SelectionColor)

====
